---- MODULE Spec2Model ----
(***************************************************************************)
(* Little Loaf Cottage: the checkout / payment pipeline.                   *)
(*                                                                         *)
(*   - the Payment Backend (netlify function process-payment),             *)
(*   - the payment form (SquarePaymentForm.handlePayment),                 *)
(*   - the checkout page (Order) and the cart store (OrderProvider),       *)
(*   - the notification side effect (emailService.sendOrderEmails).        *)
(*                                                                         *)
(* Specifications over the same variables:                                 *)
(*   Spec         a browser session: the menu, the order page entered by   *)
(*                a link, the payment form and its attempts, each          *)
(*                request handled by the backend under the default         *)
(*                environment; initializeSquare is one step and the store  *)
(*                accepts every write;                                     *)
(*   CheckoutSpec the same session with the order page also entered by the *)
(*                menu's Proceed to Checkout, which hands it the list of   *)
(*                that moment in location.state;                           *)
(*   WidgetSpec   the payment form with every await of initializeSquare a  *)
(*                step of its own, and Pay;                                *)
(*   ChargeSpec   Pay and the attempt that follows, for every cart of the  *)
(*                menu up to MaxChargeItems items;                         *)
(*   BackendSpec  the process-payment handler on any request under any     *)
(*                environment, or one sendEmail call answered by the       *)
(*                send-email function;                                     *)
(*   CartSpec     the cart store under the menu and the order summary,     *)
(*                with the list the route carries in location.state;       *)
(*   StoreSpec    the cart and its stored copy, with a store that may      *)
(*                refuse a write or a read, and the page loaded again.     *)
(*                                                                         *)
(* JavaScript numbers are carried as integers counting thousandths, so     *)
(* that 12.34 is 12340 and 500 is 500000; a JavaScript value is a record   *)
(* [t, v, s]: its type tag, its number (thousandths) and its string.       *)
(***************************************************************************)
EXTENDS Integers, Sequences, FiniteSets, TLC

VARIABLES
    selectedItems,  \* OrderProvider: the cart, the flat list of item names
    stored,         \* localStorage['little-loaf-cottage-order']: the list
                    \*   its text spells, << >> also for no text at all
    snapshot,       \* location.state?.selectedItems of the route shown
    page,           \* the route shown: "order" (Order) or "menu" (any other)
    paymentStep,    \* Order: 'form', 'payment' or 'success'
    formData,       \* Order: the delivery form
    paymentError,   \* Order: the banner text, "" for none
    navTimers,      \* pending setTimeout(() => navigate('/'), 5000)
    form,           \* the mounted SquarePaymentForm: its state, refs and DOM
    attempts,       \* the handlePayment calls that passed the guard
    bPhase,         \* a request sent straight to the backend: where it is
    bReq,           \*   the request
    bEnv,           \*   process.env of the handler
    bFwd,           \*   what the handler sent to the processor
    bAnswer,        \*   what the processor answered
    bResp,          \*   the handler's response
    mail            \* one sendEmail call and the send-email handler's run

feVars == <<selectedItems, stored, snapshot, page, paymentStep, formData,
            paymentError, navTimers, form, attempts>>
beVars == <<bPhase, bReq, bEnv, bFwd, bAnswer, bResp, mail>>
vars == <<selectedItems, stored, snapshot, page, paymentStep, formData,
          paymentError, navTimers, form, attempts, bPhase, bReq, bEnv, bFwd,
          bAnswer, bResp, mail>>

(***************************************************************************)
(* Bounds of the model                                                     *)
(***************************************************************************)
\* the longest cart
MaxCart == 1
\* the most handlePayment calls that pass the guard in one run
MaxAttempts == 2
\* the longest cart of the runs of the cart on its own
MaxCartLen == 3
\* The longest cart of the charge check.
MaxChargeItems == 2


(***************************************************************************)
(* JavaScript values                                                       *)
(***************************************************************************)
Undefined == [t |-> "undefined", v |-> 0, s |-> ""]
Null == [t |-> "null", v |-> 0, s |-> ""]
NaN == [t |-> "NaN", v |-> 0, s |-> ""]
Infinity == [t |-> "Infinity", v |-> 0, s |-> ""]
Num(n) == [t |-> "number", v |-> n, s |-> ""]
Str(str) == [t |-> "string", v |-> 0, s |-> str]

\* A whole number n as a JavaScript number.
Whole(n) == Num(n * 1000)

\* !!x
Truthy(x) ==
    CASE x.t = "number" -> x.v # 0
      [] x.t = "string" -> x.s # ""
      [] x.t = "Infinity" -> TRUE
      [] OTHER -> FALSE

\* String.prototype.trim, on the strings the requests carry.
TrimMutNone(str) == str

Trim(str) == IF str \in {"", " ", "  "} THEN "" ELSE str

\* String.prototype.toUpperCase, on the currency codes the requests carry.
ToUpperCase(str) ==
    CASE str = "usd" -> "USD"
      [] str = "eur" -> "EUR"
      [] str = "Usd" -> "USD"
      [] OTHER -> str

\* parseFloat of a string: the decimal strings the requests carry.
ParseFloat(str) ==
    CASE str = "12.34" -> Num(12340)
      [] str = "5" -> Num(5000)
      [] str = "50000" -> Num(50000000)
      [] str = "0.3" -> Num(300)
      [] str = "100" -> Num(100000)
      [] str = "5000" -> Num(5000000)
      [] OTHER -> NaN

\* Number(x)
ToNumber(x) ==
    CASE x.t = "number" -> x
      [] x.t = "Infinity" -> x
      [] x.t = "string" -> IF Trim(x.s) = "" THEN Num(0)
                           ELSE IF x.s = "Infinity" THEN Infinity
                           ELSE ParseFloat(x.s)
      [] x.t = "null" -> Num(0)
      [] OTHER -> NaN

\* Number.isInteger(x)
IsInteger(x) == x.t = "number" /\ x.v % 1000 = 0

\* Number.isFinite(x)
IsFinite(x) == x.t = "number"

\* Math.round(x * 100) of a number x. The product is a binary floating point
\* number: when the exact product lies half way between two integers the
\* float may fall on either side, and both roundings are outcomes.
RoundTimes100(x) ==
    LET y == x.v * 100
        fl == y \div 1000
        fr == y % 1000
    IN  IF fr < 500 THEN {Whole(fl)}
        ELSE IF fr > 500 THEN {Whole(fl + 1)}
        ELSE {Whole(fl), Whole(fl + 1)}

\* a < b and a > b of JavaScript: false as soon as one side is NaN.
JsLess(a, b) ==
    /\ a.t \in {"number", "Infinity"}
    /\ b.t \in {"number", "Infinity"}
    /\ IF a.t = "Infinity" THEN FALSE
       ELSE IF b.t = "Infinity" THEN TRUE
       ELSE a.v < b.v

RECURSIVE JoinComma(_)
\* Array.prototype.join(', ')
JoinComma(strs) ==
    IF Len(strs) = 0 THEN ""
    ELSE IF Len(strs) = 1 THEN strs[1]
    ELSE strs[1] \o ", " \o JoinComma(Tail(strs))

\* Array.prototype.map
MapSeq(Op(_), sq) == [i \in 1..Len(sq) |-> Op(sq[i])]

(***************************************************************************)
(* The Payment Backend: handler of process-payment                         *)
(*                                                                         *)
(* A request is [httpMethod, bodyKind, sourceId, amount, amountCents,      *)
(* currency, idempotencyKey, origin]; bodyKind is "json" (a JSON object,   *)
(* whose fields are the five that follow; a field the object lacks is      *)
(* Undefined), "invalid" (JSON.parse throws) or "none" (no body). origin   *)
(* is the Origin header, "" when the request has none.                     *)
(*                                                                         *)
(* The environment is [SQUARE_ACCESS_TOKEN, SQUARE_LOCATION_ID,            *)
(* SQUARE_ENVIRONMENT, ALLOWED_ORIGINS, ALLOWED_CURRENCIES,                *)
(* MIN_AMOUNT_CENTS, MAX_AMOUNT_CENTS, DEBUG_PROCESS_PAYMENT]: strings,    *)
(* "" when unset, and the two lists as sets.                               *)
(***************************************************************************)
DefaultMinAmountCents == 50
DefaultMaxAmountCents == 1000000
CentsThreshold == 1000

NoErrors == << >>

\* A response of the handler. error is body.error, squareErrors is
\* body.squareErrors, squareResponse and detail are the debug fields, ""
\* when the body has none; allowOrigin is Access-Control-Allow-Origin.
Response(code, status, error, allowOrigin) ==
    [statusCode |-> code, status |-> status, error |-> error,
     paymentId |-> "", squareErrors |-> NoErrors, squareResponse |-> "",
     detail |-> "", allowOrigin |-> allowOrigin]

NoResponse == Response(0, "", "", "")

\* The request the handler sends to the processor.
NoPaymentRequest ==
    [source_id |-> "", idempotency_key |-> Undefined, amount |-> NaN,
     currency |-> Undefined, location_id |-> "", url |-> ""]

\* getCorsHeaders(origin)['Access-Control-Allow-Origin']
GetCorsOrigin(env, origin) ==
    LET allowed == \/ env.ALLOWED_ORIGINS = {}
                   \/ (origin # "" /\ origin \in env.ALLOWED_ORIGINS)
    IN  IF allowed THEN (IF origin # "" THEN origin ELSE "*") ELSE "null"

\* const { sourceId, amount, amountCents, currency = 'USD', idempotencyKey } = body || {}
BodyField(req, f) == IF req.bodyKind = "json" THEN req[f] ELSE Undefined

BodyCurrency(req) ==
    IF BodyField(req, "currency").t = "undefined" THEN Str("USD")
    ELSE BodyField(req, "currency")

\* The amount in the smallest currency unit: the set of values finalAmount
\* can take (one value, two when the float product is a tie).
FinalAmountMutNoPrecedence(amount, amountCents) ==
    LET rawAmount == IF amount.t = "string" THEN ParseFloat(amount.s) ELSE amount
    IN  IF rawAmount.t \in {"undefined", "null", "NaN"} THEN
            IF amountCents.t \notin {"undefined", "null"}
            THEN {ToNumber(amountCents)} ELSE {NaN}
        ELSE IF rawAmount.t # "number" THEN {rawAmount}
        ELSE IF IsInteger(rawAmount) THEN
            IF rawAmount.v > CentsThreshold * 1000 THEN {rawAmount}
            ELSE RoundTimes100(rawAmount)
        ELSE RoundTimes100(rawAmount)

FinalAmount(amount, amountCents) ==
    IF amountCents.t \notin {"undefined", "null"} THEN {ToNumber(amountCents)}
    ELSE LET rawAmount == IF amount.t = "string" THEN ParseFloat(amount.s)
                          ELSE amount
         IN  IF rawAmount.t \in {"undefined", "null", "NaN"} THEN {NaN}
             ELSE IF rawAmount.t # "number" THEN {rawAmount}
             ELSE IF IsInteger(rawAmount) THEN
                 IF rawAmount.v > CentsThreshold * 1000 THEN {rawAmount}
                 ELSE RoundTimes100(rawAmount)
             ELSE RoundTimes100(rawAmount)

\* Number(process.env.MIN_AMOUNT_CENTS || 50), Number(process.env.MAX_AMOUNT_CENTS || 1000000)
MinAmountCents(env) ==
    IF env.MIN_AMOUNT_CENTS # "" THEN ToNumber(Str(env.MIN_AMOUNT_CENTS))
    ELSE Whole(DefaultMinAmountCents)

MaxAmountCents(env) ==
    IF env.MAX_AMOUNT_CENTS # "" THEN ToNumber(Str(env.MAX_AMOUNT_CENTS))
    ELSE Whole(DefaultMaxAmountCents)

\* !Number.isFinite(finalAmount) || finalAmount < MIN || finalAmount > MAX
OutOfBoundsMutNoFinite(finalAmount, env) ==
    \/ JsLess(finalAmount, MinAmountCents(env))
    \/ JsLess(MaxAmountCents(env), finalAmount)

OutOfBounds(finalAmount, env) ==
    \/ ~IsFinite(finalAmount)
    \/ JsLess(finalAmount, MinAmountCents(env))
    \/ JsLess(MaxAmountCents(env), finalAmount)

\* idempotencyKey || crypto.randomUUID(); uuid is the value randomUUID returns.
FinalIdempotencyKeyMutRotate(idempotencyKey, uuid) == Str(uuid)

FinalIdempotencyKey(idempotencyKey, uuid) ==
    IF Truthy(idempotencyKey) THEN idempotencyKey ELSE Str(uuid)

\* The catch block of the handler: the answer to an exception.
CatchResponse(env, message) ==
    IF env.DEBUG_PROCESS_PAYMENT = "true"
    THEN [Response(500, "FAILED", message, "*") EXCEPT !.detail = "stack"]
    ELSE Response(500, "FAILED", "Internal server error", "*")

\* (process.env.ALLOWED_CURRENCIES || 'USD').split(',').map(toUpperCase)
AllowedCurrencies(env) ==
    IF env.ALLOWED_CURRENCIES = {} THEN {"USD"}
    ELSE {ToUpperCase(c) : c \in env.ALLOWED_CURRENCIES}

\* !accessToken || !locationId
ConfigMissingMutTokenOnly(env) == env.SQUARE_ACCESS_TOKEN = ""

ConfigMissing(env) == env.SQUARE_ACCESS_TOKEN = "" \/ env.SQUARE_LOCATION_ID = ""

\* The outcome of the handler up to its call of the processor, for the value
\* finalAmount took and the value uuid that randomUUID would return:
\* "respond" with resp, "throw" (an exception reaches the catch block) or
\* "forward" with the processor request preq.
Outcome(kind, resp, preq) == [kind |-> kind, resp |-> resp, preq |-> preq]

Respond(resp) == Outcome("respond", resp, NoPaymentRequest)

Validate(req, env, finalAmount, uuid) ==
    LET origin == req.origin
        cors == GetCorsOrigin(env, origin)
        sourceId == BodyField(req, "sourceId")
        currency == BodyCurrency(req)
        idempotencyKey == BodyField(req, "idempotencyKey")
        cur == IF Truthy(currency) THEN currency ELSE Str("USD")
    IN  IF req.httpMethod = "OPTIONS" THEN Respond(Response(200, "", "", cors))
        ELSE IF req.httpMethod # "POST" THEN
            Respond(Response(405, "FAILED", "Method not allowed", "*"))
        ELSE IF req.bodyKind = "invalid" THEN
            Respond(Response(400, "FAILED", "Invalid JSON in request body", "*"))
        ELSE IF ~Truthy(sourceId) THEN
            Respond(Response(400, "FAILED", "Missing sourceId (payment token)", cors))
        ELSE IF sourceId.t # "string" \/ Trim(sourceId.s) = "" THEN
            Respond(Response(400, "FAILED", "Invalid sourceId", cors))
        ELSE IF cur.t # "string" THEN
            \* (currency || 'USD').toUpperCase is not a function
            Outcome("throw", CatchResponse(env, "toUpperCase is not a function"),
                    NoPaymentRequest)
        ELSE IF ToUpperCase(cur.s) \notin AllowedCurrencies(env) THEN
            Respond(Response(400, "FAILED", "Unsupported currency", cors))
        ELSE IF OutOfBounds(finalAmount, env) THEN
            Respond(Response(400, "FAILED", "Invalid payment amount (out of bounds)", cors))
        ELSE IF ConfigMissing(env) THEN
            Respond(Response(500, "FAILED", "Server configuration error", cors))
        ELSE Outcome("forward", NoResponse,
                [source_id |-> sourceId.s,
                 idempotency_key |-> FinalIdempotencyKey(idempotencyKey, uuid),
                 amount |-> finalAmount,
                 currency |-> currency,
                 location_id |-> env.SQUARE_LOCATION_ID,
                 url |-> IF env.SQUARE_ENVIRONMENT = "production"
                         THEN "https://connect.squareup.com/v2/payments"
                         ELSE "https://connect.squareupsandbox.com/v2/payments"])

\* The processor's answer: [kind, errors, paymentId]. kind is "ok" (a 2xx
\* response), "rejected" (a non-2xx response with the error list errors),
\* "fetch-throws" (the call itself fails) or "json-throws" (the answer is
\* no JSON). One error is [code, detail, message], "" for a missing field.
ProcAnswer(kind, errors, paymentId) ==
    [kind |-> kind, errors |-> errors, paymentId |-> paymentId]

\* err.detail || err.message || JSON.stringify(err)
ErrorText(err) ==
    IF err.detail # "" THEN err.detail
    ELSE IF err.message # "" THEN err.message
    ELSE "{\"code\":\"" \o err.code \o "\"}"

\* The message the handler builds from the processor's error list.
ErrorMessage(errors) ==
    IF Len(errors) > 0 THEN JoinComma(MapSeq(ErrorText, errors))
    ELSE "Payment processing failed"

\* The handler from the processor's answer on.
ClassifyMutAlwaysCompleted(answer, env, origin) ==
    [Response(200, "COMPLETED", "", GetCorsOrigin(env, origin))
        EXCEPT !.paymentId = answer.paymentId]

Classify(answer, env, origin) ==
    LET cors == GetCorsOrigin(env, origin)
    IN  IF answer.kind = "fetch-throws" THEN CatchResponse(env, "fetch failed")
        ELSE IF answer.kind = "json-throws" THEN
            CatchResponse(env, "Unexpected token < in JSON")
        ELSE IF answer.kind = "rejected" THEN
            [Response(400, "FAILED", ErrorMessage(answer.errors), cors)
                EXCEPT !.squareErrors = answer.errors,
                       !.squareResponse =
                            IF env.DEBUG_PROCESS_PAYMENT = "true"
                            THEN "raw processor response" ELSE ""]
        ELSE [Response(200, "COMPLETED", "", cors)
                EXCEPT !.paymentId = answer.paymentId]

(***************************************************************************)
(* The backend on its own: any caller, any request, any environment        *)
(***************************************************************************)
Request(method, bodyKind, sourceId, amount, amountCents, currency, key, origin) ==
    [httpMethod |-> method, bodyKind |-> bodyKind, sourceId |-> sourceId,
     amount |-> amount, amountCents |-> amountCents, currency |-> currency,
     idempotencyKey |-> key, origin |-> origin]

NoRequest ==
    Request("", "none", Undefined, Undefined, Undefined, Undefined, Undefined, "")

Env(token, location, origins, currencies, min, max, debug) ==
    [SQUARE_ACCESS_TOKEN |-> token, SQUARE_LOCATION_ID |-> location,
     SQUARE_ENVIRONMENT |-> "", ALLOWED_ORIGINS |-> origins,
     ALLOWED_CURRENCIES |-> currencies, MIN_AMOUNT_CENTS |-> min,
     MAX_AMOUNT_CENTS |-> max, DEBUG_PROCESS_PAYMENT |-> debug]

\* Only the two secrets set: every default applies.
DefaultEnv == Env("sq-token", "LOC1", {}, {}, "", "", "")

Envs ==
    { DefaultEnv,
      Env("sq-token", "LOC1", {"https://shop.example"}, {"usd", "eur"}, "100", "5000", "true"),
      Env("", "LOC1", {}, {}, "", "", ""),
      Env("sq-token", "", {"https://shop.example"}, {}, "", "", "") }

SourceIdInputs == {Undefined, Str(""), Str("  "), Whole(7), Str("cnon:card-nonce-ok")}

AmountInputs ==
    { Undefined, Str("abc"), Str("12.34"),
      Num(12340), Num(1005), Num(300), Num(10000010),
      Whole(5), Whole(30), Whole(1000), Whole(1001), Whole(50000),
      Whole(1000001), Whole(0 - 5) }

AmountCentsInputs ==
    {Undefined, Null, Whole(500), Whole(30), Whole(49), Whole(50), Whole(1000000),
     Whole(1000001), Str("abc"), Str("Infinity")}

CurrencyInputs ==
    {Undefined, Null, Str(""), Str("USD"), Str("usd"), Str("EUR"), Whole(5)}

IdempotencyKeyInputs == {Undefined, Str(""), Str("key-A"), Str("key-B")}

OriginInputs == {"", "https://shop.example", "https://evil.example"}

Requests ==
    { Request(m, "none", Undefined, Undefined, Undefined, Undefined, Undefined, o) :
        m \in {"OPTIONS", "GET", "POST"}, o \in OriginInputs }
    \cup
    { Request("POST", "invalid", Undefined, Undefined, Undefined, Undefined, Undefined, o) :
        o \in OriginInputs }
    \cup
    { Request("POST", "json", sid, Undefined, ac, cur, key, "https://shop.example") :
        sid \in SourceIdInputs, ac \in AmountCentsInputs,
        cur \in {Undefined, Str("EUR")}, key \in {Undefined, Str("key-A")} }
    \cup
    { Request("POST", "json", Str("cnon:card-nonce-ok"), am, ac, cur, key, o) :
        am \in AmountInputs, ac \in {Undefined, Null, Whole(500), Whole(30)},
        cur \in CurrencyInputs, key \in IdempotencyKeyInputs,
        o \in {"", "https://evil.example"} }

Declined == [code |-> "CARD_DECLINED", detail |-> "Card declined.", message |-> ""]
CvvFailure == [code |-> "CVV_FAILURE", detail |-> "", message |-> "CVV check failed"]
BareError == [code |-> "GENERIC_DECLINE", detail |-> "", message |-> ""]

ProcAnswers ==
    { ProcAnswer("ok", NoErrors, "pay_1"),
      ProcAnswer("rejected", <<Declined>>, ""),
      ProcAnswer("rejected", <<Declined, CvvFailure>>, ""),
      ProcAnswer("rejected", <<BareError>>, ""),
      ProcAnswer("rejected", NoErrors, ""),
      ProcAnswer("fetch-throws", NoErrors, ""),
      ProcAnswer("json-throws", NoErrors, "") }

NoAnswer == ProcAnswer("", NoErrors, "")

ServerUuids == {"uuid-1", "uuid-2"}

(***************************************************************************)
(* The notification backend: handler of send-email                         *)
(*                                                                         *)
(* A request is [httpMethod, bodyKind, to, subject, text, from], bodyKind  *)
(* as for the payment handler; the environment is [SENDGRID_API_KEY,       *)
(* FROM_EMAIL, DEBUG_SEND_EMAIL], "" when unset. What sgMail.send does is  *)
(* [kind, messages]: "sent", "rejected" (it throws with a response body    *)
(* whose errors have the messages) or "throws" (it throws without one).    *)
(***************************************************************************)
MailRequest(method, bodyKind, to, subject, text, from) ==
    [httpMethod |-> method, bodyKind |-> bodyKind, to |-> to,
     subject |-> subject, text |-> text, from |-> from]

NoMailRequest ==
    MailRequest("", "none", Undefined, Undefined, Undefined, Undefined)

MailEnv(key, from, debug) ==
    [SENDGRID_API_KEY |-> key, FROM_EMAIL |-> from, DEBUG_SEND_EMAIL |-> debug]

MailEnvs ==
    { MailEnv("SG.key", "shop@example.com", ""),
      MailEnv("SG.key", "", "true"),
      MailEnv("", "shop@example.com", ""),
      MailEnv("", "", "true") }

Provider(kind, messages) == [kind |-> kind, messages |-> messages]

Providers ==
    { Provider("sent", << >>),
      Provider("rejected", <<"Unauthorized">>),
      Provider("rejected", << >>),
      Provider("throws", << >>) }

\* The message given to sgMail.send, to "" when none was.
NoMsg == [to |-> "", from |-> ""]

\* A response of the handler: json is whether it has Content-Type
\* application/json, status and error are body.status and body.error,
\* detail is whether the body has a detail field, msg is what was given to
\* the provider.
MailResponse(code, json, status, error) ==
    [statusCode |-> code, json |-> json, status |-> status, error |-> error,
     detail |-> FALSE, msg |-> NoMsg]

NoMailResponse == MailResponse(0, FALSE, "", "")

\* typeof addr === 'string' && /.+@.+\..+/.test(addr), on the addresses the
\* requests carry
IsValidEmail(addr) == addr.t = "string" /\ addr.s \in {"ada@example.com"}

\* The handler of send-email, for what the provider does with the message.
MailHandler(req, env, provider) ==
    LET field(f) == IF req.bodyKind = "json" THEN req[f] ELSE Undefined
        debug == env.DEBUG_SEND_EMAIL = "true"
        msg == [to |-> field("to").s,
                from |-> IF Truthy(field("from")) THEN field("from").s
                         ELSE IF env.FROM_EMAIL # "" THEN env.FROM_EMAIL
                         ELSE "no-reply@example.com"]
    IN  IF req.httpMethod = "OPTIONS" THEN MailResponse(200, FALSE, "", "")
        ELSE IF req.httpMethod # "POST" THEN
            MailResponse(405, TRUE, "FAILED", "Method not allowed")
        ELSE IF env.SENDGRID_API_KEY = "" THEN
            MailResponse(500, TRUE, "FAILED", "Email service not configured")
        ELSE IF req.bodyKind = "invalid" THEN
            \* JSON.parse throws: the catch-all
            MailResponse(500, TRUE, "FAILED", "Unexpected server error")
        ELSE IF ~Truthy(field("to")) \/ ~Truthy(field("subject"))
                \/ ~Truthy(field("text")) THEN
            MailResponse(400, TRUE, "FAILED",
                         "Missing required fields: to, subject, text")
        ELSE IF ~IsValidEmail(field("to")) THEN
            MailResponse(400, TRUE, "FAILED", "Invalid recipient email address")
        ELSE IF provider.kind = "sent" THEN
            [MailResponse(200, TRUE, "SENT", "")
                EXCEPT !.detail = debug, !.msg = msg]
        ELSE [MailResponse(500, TRUE, "FAILED",
                           IF Len(provider.messages) > 0
                           THEN JoinComma(provider.messages)
                           ELSE "Email sending failed")
                EXCEPT !.detail = debug, !.msg = msg]

MailToInputs ==
    {Undefined, Str(""), Str("ada@example.com"), Str("ada.example.com"), Whole(5)}

MailRequests ==
    { MailRequest(m, "none", Undefined, Undefined, Undefined, Undefined) :
        m \in {"OPTIONS", "GET", "POST"} }
    \cup
    { MailRequest("POST", "invalid", Undefined, Undefined, Undefined, Undefined) }
    \cup
    { MailRequest("POST", "json", to, subject, text, from) :
        to \in MailToInputs, subject \in {Undefined, Str("Thank You for Your Order")},
        text \in {Undefined, Str("Hi there!")},
        from \in {Undefined, Str("orders@example.com")} }

\* One sendEmail call: phase is "idle", "called" (the request is sent),
\* "responded" (the handler has returned) or "settled" (sendEmail has
\* returned or thrown); build is the build of the frontend; transport is
\* what becomes of the request: "ok" (it reaches the handler), "fetch-fails"
\* (fetch rejects) or "not-found" (no function is deployed at the path: the
\* host answers 404 with a page); result is "SENT", "LOCAL_DEV_SKIP" or
\* "throws".
MailCall(phase, build, transport, req, env) ==
    [phase |-> phase, build |-> build, transport |-> transport, req |-> req,
     env |-> env, resp |-> NoMailResponse, result |-> ""]

MailIdle ==
    MailCall("idle", "development", "ok", NoMailRequest, MailEnv("", "", ""))

Builds == {"development", "production"}

Transports == {"ok", "fetch-fails", "not-found"}

HandlerIdle ==
    /\ bPhase = "idle"
    /\ bReq = NoRequest
    /\ bEnv = DefaultEnv
    /\ bFwd = NoPaymentRequest
    /\ bAnswer = NoAnswer
    /\ bResp = NoResponse

BackendIdle == HandlerIdle /\ mail = MailIdle

\* The handler runs up to its call of the processor.
HandlerValidates ==
    /\ bPhase = "received"
    /\ \E finalAmount \in FinalAmount(BodyField(bReq, "amount"),
                                      BodyField(bReq, "amountCents")),
          uuid \in ServerUuids :
            LET out == Validate(bReq, bEnv, finalAmount, uuid)
            IN  IF out.kind = "forward"
                THEN /\ bPhase' = "forwarded"
                     /\ bFwd' = out.preq
                     /\ bResp' = bResp
                ELSE /\ bPhase' = "responded"
                     /\ bFwd' = bFwd
                     /\ bResp' = out.resp
    /\ UNCHANGED <<bReq, bEnv, bAnswer, mail>>
    /\ UNCHANGED feVars

\* The processor answers and the handler classifies the answer.
HandlerClassifies ==
    /\ bPhase = "forwarded"
    /\ \E answer \in ProcAnswers :
        /\ bAnswer' = answer
        /\ bResp' = Classify(answer, bEnv, bReq.origin)
    /\ bPhase' = "responded"
    /\ UNCHANGED <<bReq, bEnv, bFwd, mail>>
    /\ UNCHANGED feVars

(***************************************************************************)
(* The cart store (OrderProvider) and the menu                             *)
(***************************************************************************)
MenuItems == {"Artisan Sourdough"}

\* menuItems[..].price, in dollars
Price(name) ==
    CASE name = "Artisan Sourdough" -> 12
      [] name = "Sandwich Bread" -> 10
      [] name = "Chocolate Chip Cookies" -> 1
      [] name = "Apple Cider Donut (2 pack)" -> 6
      [] name = "Pecan Banana Bread" -> 4
      [] name = "Cinnamon Rolls" -> 6
      [] name = "Express Brownie" -> 4
      [] name = "Mini Banana Bread" -> 5

RECURSIVE SumPrices(_)
\* items.reduce((total, item) => total + item.price, 0)
SumPrices(items) ==
    IF Len(items) = 0 THEN 0 ELSE Price(Head(items)) + SumPrices(Tail(items))

\* OrderProvider: totalPrice
totalPrice == SumPrices(selectedItems)

\* saveOrderToStorage(items): what the store holds afterwards; setItem
\* throws when accepts is FALSE, and the catch only logs.
SaveOrderToStorageMutSkip(items, accepts) == stored

SaveOrderToStorage(items, accepts) == IF accepts THEN items ELSE stored

\* A text under the key that JSON.parse rejects.
CorruptText == <<"{">>

\* loadOrderFromStorage(): getItem throws when the store is not readable,
\* JSON.parse throws on a text it rejects; the catch logs and returns [].
\* thrown tells whether an exception leaves the function.
LoadOrderFromStorage(text, readable) ==
    IF ~readable \/ text = CorruptText THEN [thrown |-> FALSE, items |-> << >>]
    ELSE [thrown |-> FALSE, items |-> text]

\* The cart after the provider's load effect: useState([]), then
\* setSelectedItems(savedOrder) if savedOrder.length > 0.
RestoredCart(text, readable) ==
    LET savedOrder == LoadOrderFromStorage(text, readable).items
    IN  IF Len(savedOrder) > 0 THEN savedOrder ELSE << >>

\* clearOrder: setSelectedItems([]) and saveOrderToStorage([]); the items
\* the cart holds afterwards.
ClearOrderMutKeep(items) == items

ClearOrder(items) == << >>

\* prev.filter((_, i) => i !== index), index counted from 1 here (0 is -1
\* of the code)
RemoveAtMutByName(items, index) ==
    IF index \in 1..Len(items)
    THEN SelectSeq(items, LAMBDA item : item # items[index])
    ELSE items

RemoveAt(items, index) ==
    IF index \in 1..Len(items)
    THEN [i \in 1..(Len(items) - 1) |->
            IF i < index THEN items[i] ELSE items[i + 1]]
    ELSE items

\* location.state of a route entered without state, and of /order entered
\* by goToOrder with the items of then.
NoSnapshot == [has |-> FALSE, items |-> << >>]

SnapshotOf(items) == [has |-> TRUE, items |-> items]

\* Order: selectedItems = location.state?.selectedItems || contextItems,
\* with items the list of the context
OrderItemsOf(items) == IF snapshot.has THEN snapshot.items ELSE items

OrderItems == OrderItemsOf(selectedItems)

\* Order: getTotalPrice()
getTotalPrice == SumPrices(OrderItems)

\* The list the page shown presents: Order its own, Menu the context's.
ShownItems == IF page = "order" THEN OrderItems ELSE selectedItems

\* items.findIndex(selectedItem => selectedItem.name === name), 0 for -1
FindIndex(items, name) ==
    IF \E i \in DOMAIN items : items[i] = name
    THEN CHOOSE i \in DOMAIN items :
            items[i] = name /\ \A j \in 1..(i - 1) : items[j] # name
    ELSE 0

RECURSIVE UniqueItems(_)
\* The grouping of the order summaries: items.reduce over an accumulator of
\* entries [name, quantity], a new entry pushed for a name not yet there.
UniqueItems(items) ==
    IF Len(items) = 0 THEN << >>
    ELSE LET acc == UniqueItems(SubSeq(items, 1, Len(items) - 1))
             item == items[Len(items)]
             names == [i \in DOMAIN acc |-> acc[i].name]
             existing == FindIndex(names, item)
         IN  IF existing # 0
             THEN [acc EXCEPT ![existing].quantity = @ + 1]
             ELSE Append(acc, [name |-> item, quantity |-> 1])

\* The indices of name in items, from the last to the first:
\* items.map(...).filter(idx => idx !== -1).reverse()
IndicesToRemove(items, name) ==
    LET idx == {i \in DOMAIN items : items[i] = name}
        RECURSIVE Desc(_)
        Desc(S) == IF S = {} THEN << >>
                   ELSE LET m == CHOOSE i \in S : \A j \in S : j <= i
                        IN  <<m>> \o Desc(S \ {m})
    IN  Desc(idx)

RECURSIVE RemoveEach(_, _)
\* indices.forEach(idx => removeFromOrder(idx)): the updates applied in turn
RemoveEach(items, indices) ==
    IF Len(indices) = 0 THEN items
    ELSE RemoveEach(RemoveAt(items, Head(indices)), Tail(indices))

(***************************************************************************)
(* The checkout page (Order)                                               *)
(***************************************************************************)
FormData(name, email, phone, address, city, zipCode, deliveryDate, deliveryTime) ==
    [name |-> name, email |-> email, phone |-> phone, address |-> address,
     city |-> city, zipCode |-> zipCode, deliveryDate |-> deliveryDate,
     deliveryTime |-> deliveryTime]

\* useState({name: '', email: '', ...})
EmptyForm == FormData("", "", "", "", "", "", "", "")
ValidForm ==
    FormData("Ada", "ada@example.com", "555-0100", "1 Main St", "Salem", "97301",
             "2026-12-01", "morning")
BadEmailForm == [ValidForm EXCEPT !.email = "ada.example.com"]

FormInputs == {EmptyForm, ValidForm}

\* /\S+@\S+\.\S+/.test(email), on the addresses the forms carry
EmailShapeOk(email) == email \in {"ada@example.com"}

\* validateForm: the fields that get an error
ValidateForm(fd) ==
    {f \in {"name", "phone", "address", "city", "zipCode"} : Trim(fd[f]) = ""}
    \cup {f \in {"deliveryDate", "deliveryTime"} : fd[f] = ""}
    \cup (IF Trim(fd.email) = "" \/ ~EmailShapeOk(fd.email) THEN {"email"} ELSE {})

\* The payment section is rendered: the page is shown, the cart view is not
\* the empty one, and the step is 'payment'.
FormShown(pg, items, step) == pg = "order" /\ Len(items) > 0 /\ step = "payment"

(***************************************************************************)
(* The payment form (SquarePaymentForm): state, refs, DOM, initialization  *)
(*                                                                         *)
(* form.cardRef is "div" (the container element React puts in the ref),    *)
(* "card" (a Square card) or "null"; form.container tells whether          *)
(* #card-container has children; form.initPc is where initializeSquare of  *)
(* the current effect stands: "timer", then awaiting "payments", "card",   *)
(* "attach", then "done" or "failed"; form.orphans are the awaits of       *)
(* earlier effects of this form, whose isMounted is false.                 *)
(* isProcessingPayment and validationRunningRef.current are set and reset  *)
(* together: form.validationRunning is both.                               *)
(***************************************************************************)
UnmountedForm ==
    [mounted |-> FALSE, isInitialized |-> FALSE, validationRunning |-> FALSE,
     paymentErrors |-> << >>, cardRef |-> "null", paymentsRef |-> FALSE,
     container |-> FALSE, initPc |-> "none", orphans |-> {}]

\* The first render and the first run of the effect.
MountedForm ==
    [UnmountedForm EXCEPT !.mounted = TRUE, !.cardRef = "div", !.initPc = "timer"]

\* The effect's cleanup: isMounted = false, clearTimeout, the container
\* emptied, the card destroyed, the refs reset.
Cleanup(f) ==
    [f EXCEPT !.container = FALSE, !.cardRef = "null", !.paymentsRef = FALSE,
              !.initPc = "none",
              !.orphans = IF f.initPc \in {"payments", "card", "attach"}
                          THEN f.orphans \cup {f.initPc} ELSE f.orphans]

\* Order rendered again: onPaymentError is a new function, so the effect is
\* cleaned up and run again.
EffectRerun(f) == [Cleanup(f) EXCEPT !.initPc = "timer"]

\* The form is unmounted: the cleanup runs and the state of the component
\* is gone; the awaits of its effects are still pending.
Unmount(f) ==
    [Cleanup(f) EXCEPT !.mounted = FALSE, !.isInitialized = FALSE,
                       !.validationRunning = FALSE, !.paymentErrors = << >>]

\* The form after Order rendered with the payment section shown or not. A
\* form mounted anew is a new component with refs of its own: what is still
\* pending of the one before is followed no further.
AfterRender(f, shown) ==
    IF f.mounted /\ shown THEN EffectRerun(f)
    ELSE IF f.mounted THEN Unmount(f)
    ELSE IF shown THEN MountedForm
    ELSE f

\* The button's disabled attribute.
PayDisabled == ~form.isInitialized \/ form.validationRunning

(***************************************************************************)
(* One handlePayment call that reached tokenize():                         *)
(*   pc            "tokenize" (awaiting tokenize), "fetch" (request sent), *)
(*                 "response" (the backend has answered), "emails"         *)
(*                 (awaiting sendOrderEmails), "done"                      *)
(*   live          its form is still the mounted one                       *)
(*   orderLive     the Order that rendered it is still mounted             *)
(*   amount        the amount prop, in dollars                             *)
(*   customerEmail the customerEmail prop                                  *)
(*   key           the idempotency key generated, "" before                *)
(*   fwd           what the backend sent to the processor                  *)
(*   answer        the kind of answer the processor gave, "" before        *)
(*   resp          the backend's response                                  *)
(*   overlapped    a Pay invocation was ignored while it was in flight     *)
(* A call that has returned keeps its key only: Finished(att).              *)
(***************************************************************************)
NewAttempt(amount, customerEmail) ==
    [pc |-> "tokenize", live |-> TRUE, orderLive |-> TRUE, amount |-> amount,
     customerEmail |-> customerEmail, key |-> "", fwd |-> NoPaymentRequest,
     answer |-> "", resp |-> NoResponse, overlapped |-> FALSE]

DoneAttempt ==
    [pc |-> "done", live |-> FALSE, orderLive |-> FALSE, amount |-> 0,
     customerEmail |-> "", key |-> "", fwd |-> NoPaymentRequest,
     answer |-> "", resp |-> NoResponse, overlapped |-> FALSE]

InFlight(att) == att.pc # "done"

\* The call att once it has returned: nothing of it is left but the key it
\* generated, if it got that far.
Finished(att) == [DoneAttempt EXCEPT !.key = att.key]

\* The attempts after Order rendered: those of an unmounted form or of an
\* unmounted Order lose it.
Rendered(atts, pg, items, step) ==
    [i \in DOMAIN atts |->
        [atts[i] EXCEPT !.live = @ /\ FormShown(pg, items, step),
                        !.orderLive = @ /\ pg = "order",
                        !.overlapped = @ /\ FormShown(pg, items, step)]]

\* The finally block: setIsProcessingPayment(false), validationRunningRef.current = false
Finally(f, att) == IF att.live THEN [f EXCEPT !.validationRunning = FALSE] ELSE f

\* generateIdempotencyKey(): Date.now() and Math.random(), a new value each
\* call; n counts the calls of handlePayment.
GenerateIdempotencyKeyMutFixed(n) == "key-1"

GenerateIdempotencyKey(n) == "key-" \o ToString(n)

\* The tokenize results: [status, token, errors], or the call rejects
\* (status "throws"). One error is [code, detail], "" for a missing detail.
TokenizeResult(status, token, errors) ==
    [status |-> status, token |-> token, errors |-> errors]

NetworkError == [code |-> "NETWORK_ERROR", detail |-> "Network unreachable"]
ServerError == [code |-> "SERVER_ERROR", detail |-> ""]
TokenizationError == [code |-> "TOKENIZATION_ERROR", detail |-> ""]
InvalidCard == [code |-> "INVALID_CARD_DATA", detail |-> "Card number is not valid"]

TokenizeResults ==
    { TokenizeResult("OK", "cnon:card-nonce-ok", << >>),
      TokenizeResult("Invalid", "", <<InvalidCard>>),
      TokenizeResult("Error", "", <<NetworkError>>),
      TokenizeResult("Error", "", <<InvalidCard, NetworkError>>),
      TokenizeResult("Error", "", <<ServerError>>),
      TokenizeResult("Error", "", <<TokenizationError>>),
      TokenizeResult("throws", "", << >>) }

\* errors.filter(error => error.code === 'TOKENIZATION_ERROR' || ...)
SeriousCodes == {"TOKENIZATION_ERROR", "NETWORK_ERROR", "SERVER_ERROR"}

SeriousErrorsMutAll(errors) == errors

SeriousErrors(errors) == SelectSeq(errors, LAMBDA e : e.code \in SeriousCodes)

\* error.detail || 'Payment processing failed. Please try again.'
TokenizeMessage(e) ==
    IF e.detail # "" THEN e.detail ELSE "Payment processing failed. Please try again."

\* response.ok && paymentResult.status === 'COMPLETED'
PaymentCompleted(resp) ==
    resp.statusCode \in 200..299 /\ resp.status = "COMPLETED"

\* paymentResult.errorMessage || 'Payment processing failed': the body of
\* the backend has the fields error and status, and no errorMessage.
\* paymentResult[key]: "" (undefined) for a key the body does not have.
BodyKeys == {"error", "status", "squareErrors", "squareResponse", "detail"}

ReadBody(resp, key) == IF key \in BodyKeys THEN resp[key] ELSE ""

ThrownMessage(resp) ==
    LET errorMessage == ReadBody(resp, "errorMessage")
    IN  IF errorMessage # "" THEN errorMessage ELSE "Payment processing failed"

(***************************************************************************)
(* The notification side effect (emailService)                             *)
(*                                                                         *)
(* What the notification endpoint does with one sendEmail call:            *)
(* [fetchFails, json, status, bodyStatus, error, text].                    *)
(***************************************************************************)
MailNet(fetchFails, json, status, bodyStatus, error, text) ==
    [fetchFails |-> fetchFails, json |-> json, status |-> status,
     bodyStatus |-> bodyStatus, error |-> error, text |-> text]

MailNets ==
    { MailNet(FALSE, TRUE, 200, "SENT", "", ""),
      MailNet(FALSE, TRUE, 500, "FAILED", "Unauthorized", ""),
      MailNet(FALSE, TRUE, 500, "FAILED", "Email service not configured", ""),
      MailNet(FALSE, TRUE, 400, "FAILED", "Missing required fields: to, subject, text", ""),
      MailNet(FALSE, FALSE, 404, "", "", "404 page not found"),
      MailNet(FALSE, FALSE, 502, "", "", "Bad gateway"),
      MailNet(TRUE, FALSE, 0, "", "", "") }

\* error.message.includes('404') || .includes('Failed to fetch') ||
\* .includes('Email service not configured'), on the messages sendEmail throws
LocalDevMessage(message) ==
    message \in { "Failed to fetch", "Email service not configured",
                  "Invalid response from email service: 404 page not found",
                  "Email sending failed with status 404" }

\* The message of the error thrown inside sendEmail's try, "" when none is.
SendEmailThrown(net) ==
    IF net.fetchFails THEN "Failed to fetch"
    ELSE IF ~net.json THEN "Invalid response from email service: " \o net.text
    ELSE IF net.status \notin 200..299 THEN
        (IF net.error # "" THEN net.error
         ELSE "Email sending failed with status " \o ToString(net.status))
    ELSE IF net.bodyStatus # "SENT" THEN
        (IF net.error # "" THEN net.error ELSE "Email sending failed")
    ELSE ""

\* sendEmail: "SENT", "LOCAL_DEV_SKIP" or "throws"
SendEmail(net) ==
    IF SendEmailThrown(net) = "" THEN "SENT"
    ELSE IF LocalDevMessage(SendEmailThrown(net)) THEN "LOCAL_DEV_SKIP"
    ELSE "throws"

\* What sendEmail gets from fetch in the call: the handler's response, the
\* host's 404 page, or a rejection.
MailNetOf(call) ==
    IF call.transport = "fetch-fails" THEN MailNet(TRUE, FALSE, 0, "", "", "")
    ELSE IF call.transport = "not-found" THEN
        MailNet(FALSE, FALSE, 404, "", "", "404 page not found")
    ELSE MailNet(FALSE, call.resp.json, call.resp.statusCode, call.resp.status,
                 call.resp.error, "")

\* The handler of send-email runs on the request.
MailHandlerRuns ==
    /\ mail.phase = "called" /\ mail.transport = "ok"
    /\ \E provider \in Providers :
          mail' = [mail EXCEPT !.phase = "responded",
                               !.resp = MailHandler(mail.req, mail.env, provider)]
    /\ UNCHANGED <<bPhase, bReq, bEnv, bFwd, bAnswer, bResp>>
    /\ UNCHANGED feVars

\* sendEmail settles: with the handler's response, or without one.
SendEmailSettles ==
    /\ \/ mail.phase = "responded"
       \/ mail.phase = "called" /\ mail.transport # "ok"
    /\ mail' = [mail EXCEPT !.phase = "settled",
                            !.result = SendEmail(MailNetOf(mail))]
    /\ UNCHANGED <<bPhase, bReq, bEnv, bFwd, bAnswer, bResp>>
    /\ UNCHANGED feVars

(***************************************************************************)
(* The browser session: Init and the actions                               *)
(***************************************************************************)
SiteOrigin == "https://shop.example"
CardNonce == "cnon:card-nonce-ok"

FrontendInit ==
    /\ selectedItems = << >>
    /\ stored = << >>
    /\ snapshot = NoSnapshot
    /\ page = "menu"
    /\ paymentStep = "form"
    /\ formData = EmptyForm
    /\ paymentError = ""
    /\ navTimers = 0
    /\ form = UnmountedForm
    /\ attempts = << >>

Init == FrontendInit /\ BackendIdle

\* Order shows the order summary and the delivery form (neither the
\* empty-cart view nor the success view).
NormalView == page = "order" /\ Len(OrderItems) > 0 /\ paymentStep # "success"

\* Order (if mounted) renders with the cart items and the step step.
RenderOrder(f, atts, items, step) ==
    /\ form' = AfterRender(f, FormShown(page, OrderItemsOf(items), step))
    /\ attempts' = Rendered(atts, page, OrderItemsOf(items), step)

\* addToOrder(item), from the menu or from the + button of the order summary
AddToOrder(item) ==
    /\ Len(selectedItems) < MaxCart
    /\ \/ page = "menu"
       \/ NormalView /\ \E i \in DOMAIN OrderItems : OrderItems[i] = item
    /\ selectedItems' = Append(selectedItems, item)
    /\ stored' = SaveOrderToStorage(Append(selectedItems, item), TRUE)
    /\ RenderOrder(form, attempts, Append(selectedItems, item), paymentStep)
    /\ UNCHANGED <<page, paymentStep, formData, paymentError, navTimers>>
    /\ UNCHANGED snapshot
    /\ UNCHANGED beVars

\* removeFromOrder(index), from the menu or from the order summary
RemoveFromOrder(index) ==
    /\ index \in 1..Len(ShownItems)
    /\ page = "menu" \/ NormalView
    /\ selectedItems' = RemoveAt(selectedItems, index)
    /\ stored' = SaveOrderToStorage(RemoveAt(selectedItems, index), TRUE)
    /\ RenderOrder(form, attempts, RemoveAt(selectedItems, index), paymentStep)
    /\ UNCHANGED <<page, paymentStep, formData, paymentError, navTimers>>
    /\ UNCHANGED snapshot
    /\ UNCHANGED beVars

\* The route changes to /order: a new Order is mounted.
EnterOrder ==
    /\ page = "menu"
    /\ page' = "order"
    /\ UNCHANGED <<selectedItems, stored, paymentStep, formData, paymentError,
                   navTimers, form, attempts>>
    /\ snapshot' = NoSnapshot
    /\ UNCHANGED beVars

\* Order is unmounted: its state is gone, and so is the payment form.
UnmountOrder ==
    /\ page' = "menu"
    /\ paymentStep' = "form"
    /\ formData' = EmptyForm
    /\ paymentError' = ""
    /\ form' = AfterRender(form, FALSE)
    /\ attempts' = Rendered(attempts, "menu", selectedItems, "form")

\* The route changes away from /order.
LeaveOrder ==
    /\ page = "order"
    /\ UnmountOrder
    /\ UNCHANGED <<selectedItems, stored, navTimers>>
    /\ snapshot' = NoSnapshot
    /\ UNCHANGED beVars

\* handleInputChange
HandleInputChange(fd) ==
    /\ NormalView
    /\ fd # formData
    /\ formData' = fd
    /\ RenderOrder(form, attempts, selectedItems, paymentStep)
    /\ UNCHANGED <<selectedItems, stored, page, paymentStep, paymentError, navTimers>>
    /\ UNCHANGED snapshot
    /\ UNCHANGED beVars

\* handleFormSubmit
HandleFormSubmit ==
    /\ NormalView
    /\ paymentStep' = IF ValidateForm(formData) = {} THEN "payment" ELSE paymentStep
    /\ RenderOrder(form, attempts, selectedItems, paymentStep')
    /\ UNCHANGED <<selectedItems, stored, page, formData, paymentError, navTimers>>
    /\ UNCHANGED snapshot
    /\ UNCHANGED beVars

\* Back to Form: setPaymentStep('form')
BackToForm ==
    /\ NormalView
    /\ paymentStep = "payment"
    /\ paymentStep' = "form"
    /\ RenderOrder(form, attempts, selectedItems, "form")
    /\ UNCHANGED <<selectedItems, stored, page, formData, paymentError, navTimers>>
    /\ UNCHANGED snapshot
    /\ UNCHANGED beVars

\* The context value changes without the cart changing (the notification is
\* hidden by its timer): Order renders again.
OrderRerender ==
    /\ form.mounted
    /\ form' = EffectRerun(form)
    /\ UNCHANGED <<selectedItems, stored, page, paymentStep, formData, paymentError,
                   navTimers, attempts>>
    /\ UNCHANGED snapshot
    /\ UNCHANGED beVars

\* The form after setPaymentError(message) in the Order that shows it: Order
\* renders again when the state changes, and setting the value it has is no
\* render.
SetPaymentError(f, message) == IF message # paymentError THEN EffectRerun(f) ELSE f

\* handlePaymentError(error), called by the mounted form, and the render
\* that follows.
InitFails(message) ==
    /\ paymentError' = message
    /\ form' = SetPaymentError([form EXCEPT !.initPc = "failed"], message)
    /\ UNCHANGED <<selectedItems, stored, page, paymentStep, formData, navTimers, attempts>>
    /\ UNCHANGED snapshot
    /\ UNCHANGED beVars

InitAdvances(f) ==
    /\ form' = f
    /\ UNCHANGED <<selectedItems, stored, page, paymentStep, formData, paymentError,
                   navTimers, attempts>>
    /\ UNCHANGED snapshot
    /\ UNCHANGED beVars

\* The 100 ms timer of the effect fires: initializeSquare calls payments().
InitTimerFires ==
    /\ form.mounted /\ form.initPc = "timer"
    /\ InitAdvances([form EXCEPT !.initPc = "payments"])

\* payments() settles.
InitPaymentsSettles(ok) ==
    /\ form.mounted /\ form.initPc = "payments"
    /\ IF ok THEN InitAdvances([form EXCEPT !.paymentsRef = TRUE, !.initPc = "card"])
       ELSE InitFails("Square Payments initialization failed: Unknown error")

\* paymentsRef.current.card() settles.
InitCardSettles(ok) ==
    /\ form.mounted /\ form.initPc = "card"
    /\ IF ok THEN InitAdvances([form EXCEPT !.cardRef = "card", !.initPc = "attach"])
       ELSE InitFails("Failed to create payment card: Unknown error")

\* cardRef.current.attach() settles: "attached", "already" (it throws
\* 'already been attached'), "empty" (no element in the container) or "error".
InitAttachSettles(how) ==
    /\ form.mounted /\ form.initPc = "attach"
    /\ IF how = "attached" THEN
          InitAdvances([form EXCEPT !.container = TRUE, !.isInitialized = TRUE,
                                    !.initPc = "done"])
       ELSE IF how = "already" THEN
          InitAdvances([form EXCEPT !.isInitialized = TRUE, !.initPc = "done"])
       ELSE InitFails("Failed to attach payment form: Unknown error")

\* An await of an effect that was cleaned up settles: isMounted is false,
\* the refs are written all the same. Once the form is unmounted there is
\* no #card-container for attach to find.
OrphanSettles(pc, ok) ==
    /\ pc \in form.orphans
    /\ (pc = "attach" /\ ~form.mounted) => ~ok
    /\ LET rest == form.orphans \ {pc}
       IN  IF ~ok THEN InitAdvances([form EXCEPT !.orphans = rest])
           ELSE IF pc = "payments" THEN
              InitAdvances([form EXCEPT !.paymentsRef = TRUE,
                                        !.orphans = rest \cup {"card"}])
           ELSE IF pc = "card" THEN
              InitAdvances([form EXCEPT !.cardRef = "card",
                                        !.orphans = rest \cup {"attach"}])
           ELSE InitAdvances([form EXCEPT !.container = TRUE, !.orphans = rest])

\* initializeSquare from the timer to its end, the three awaits settled
\* within the step: outcome is "attached", "already" (attach throws 'already
\* been attached') or the await that fails: "payments", "card", "attach".
InitializeSquare(outcome) ==
    /\ form.mounted /\ form.initPc = "timer"
    /\ IF outcome = "attached" THEN
          InitAdvances([form EXCEPT !.paymentsRef = TRUE, !.cardRef = "card",
                                    !.container = TRUE, !.isInitialized = TRUE,
                                    !.initPc = "done"])
       ELSE IF outcome = "already" THEN
          InitAdvances([form EXCEPT !.paymentsRef = TRUE, !.cardRef = "card",
                                    !.isInitialized = TRUE, !.initPc = "done"])
       ELSE IF outcome = "payments" THEN
          InitFails("Square Payments initialization failed: Unknown error")
       ELSE IF outcome = "card" THEN
          InitFails("Failed to create payment card: Unknown error")
       ELSE InitFails("Failed to attach payment form: Unknown error")

\* isProcessingPayment || validationRunningRef.current
PaymentGuardMutOff(f) == FALSE

PaymentGuard(f) == f.validationRunning

\* !cardRef.current || !paymentsRef.current || !isInitialized
NotReady(f) == f.cardRef = "null" \/ ~f.paymentsRef \/ ~f.isInitialized

\* The container has no children, or the ref holds no card (no attach).
NotAttached(f) == ~f.container \/ f.cardRef # "card"

\* handlePayment up to its first await. The button is enabled from
\* isInitialized on; an invocation may still arrive before the render that
\* disables it for the attempt in flight.
HandlePayment ==
    /\ form.mounted /\ form.isInitialized
    /\ IF PaymentGuard(form) THEN
          /\ attempts' = [i \in DOMAIN attempts |->
                IF attempts[i].live /\ InFlight(attempts[i])
                THEN [attempts[i] EXCEPT !.overlapped = TRUE] ELSE attempts[i]]
          /\ UNCHANGED <<form, paymentError>>
       ELSE IF NotReady(form) THEN
          /\ paymentError' = "Payment form not ready. Please try again."
          /\ form' = SetPaymentError([form EXCEPT !.paymentErrors = << >>],
                                     "Payment form not ready. Please try again.")
          /\ UNCHANGED attempts
       ELSE IF NotAttached(form) THEN
          /\ paymentError' = "Payment form not properly initialized. Please refresh the page and try again."
          /\ form' = SetPaymentError([form EXCEPT !.paymentErrors = << >>],
                "Payment form not properly initialized. Please refresh the page and try again.")
          /\ UNCHANGED attempts
       ELSE
          /\ Len(attempts) < MaxAttempts
          /\ attempts' = Append(attempts,
                            NewAttempt(getTotalPrice, formData.email))
          /\ form' = [form EXCEPT !.validationRunning = TRUE, !.paymentErrors = << >>]
          /\ UNCHANGED paymentError
    /\ UNCHANGED <<selectedItems, stored, page, paymentStep, formData, navTimers>>
    /\ UNCHANGED snapshot
    /\ UNCHANGED beVars

\* The catch and finally blocks: onPaymentError(message), handlePaymentError,
\* and the render of Order that follows.
ErrorEffects(a, message) ==
    LET att == attempts[a]
    IN  /\ paymentError' = IF att.orderLive THEN message ELSE paymentError
        /\ form' = IF att.orderLive /\ form.mounted
                   THEN SetPaymentError(Finally(form, att), message)
                   ELSE Finally(form, att)
        /\ attempts' = [attempts EXCEPT ![a] = Finished(att)]
        /\ UNCHANGED <<selectedItems, stored, page, paymentStep, formData, navTimers>>

\* onPaymentSuccess(paymentResult): handlePaymentSuccess with clearOrder and
\* the 5 s timer, then the finally block and the render of Order.
SuccessEffects(a) ==
    LET att == attempts[a]
    IN  /\ paymentStep' = IF att.orderLive THEN "success" ELSE paymentStep
        /\ paymentError' = IF att.orderLive THEN "" ELSE paymentError
        /\ selectedItems' = ClearOrder(selectedItems)
        /\ stored' = SaveOrderToStorage(ClearOrder(selectedItems), TRUE)
        /\ navTimers' = navTimers + 1
        /\ RenderOrder(Finally(form, att),
                       [attempts EXCEPT ![a] = Finished(att)],
                       ClearOrder(selectedItems), paymentStep')
        /\ UNCHANGED <<page, formData>>

\* tokenize() settles.
TokenizeSettles(a, result) ==
    /\ a \in DOMAIN attempts
    /\ attempts[a].pc = "tokenize"
    /\ LET att == attempts[a]
           serious == SeriousErrors(result.errors)
           messages == MapSeq(TokenizeMessage, serious)
       IN  IF result.status = "OK" THEN
              /\ attempts' = [attempts EXCEPT ![a] =
                    [att EXCEPT !.pc = "fetch",
                                !.key = GenerateIdempotencyKey(a)]]
              /\ UNCHANGED <<selectedItems, stored, page, paymentStep, formData,
                             paymentError, navTimers, form>>
           ELSE IF result.status = "throws" THEN
              ErrorEffects(a, "Tokenization failed")
           ELSE
              /\ form' = Finally(IF att.live /\ Len(serious) > 0
                                 THEN [form EXCEPT !.paymentErrors = messages]
                                 ELSE form, att)
              /\ attempts' = [attempts EXCEPT ![a] = Finished(att)]
              /\ UNCHANGED <<selectedItems, stored, page, paymentStep, formData,
                             paymentError, navTimers>>
    /\ UNCHANGED snapshot
    /\ UNCHANGED beVars

\* paymentData of the attempt, as the backend receives it.
PaymentData(att, cents) ==
    Request("POST", "json", Str(CardNonce), cents, Undefined, Str("USD"),
            Str(att.key), SiteOrigin)

\* The backend handles the request of the attempt: the handler up to its
\* response, with the processor's answer to what it forwards.
BackendHandles(a, answer) ==
    /\ a \in DOMAIN attempts
    /\ attempts[a].pc = "fetch"
    /\ \E cents \in RoundTimes100(Whole(attempts[a].amount)) :
       \E finalAmount \in FinalAmount(cents, Undefined) :
          LET out == Validate(PaymentData(attempts[a], cents), DefaultEnv,
                              finalAmount, "uuid-1")
          IN  attempts' = [attempts EXCEPT ![a] =
                 IF out.kind = "forward"
                 THEN [@ EXCEPT !.pc = "response", !.fwd = out.preq,
                                !.answer = answer.kind,
                                !.resp = Classify(answer, DefaultEnv, SiteOrigin)]
                 ELSE [@ EXCEPT !.pc = "response", !.resp = out.resp]]
    /\ UNCHANGED <<selectedItems, stored, page, paymentStep, formData, paymentError,
                   navTimers, form>>
    /\ UNCHANGED snapshot
    /\ UNCHANGED beVars

\* fetch resolves with the backend's response: the rest of the try block up
\* to the next await.
FetchResolves(a) ==
    /\ a \in DOMAIN attempts
    /\ attempts[a].pc = "response"
    /\ IF PaymentCompleted(attempts[a].resp) THEN
          IF attempts[a].customerEmail # "" THEN
             /\ attempts' = [attempts EXCEPT ![a] = [@ EXCEPT !.pc = "emails"]]
             /\ UNCHANGED <<selectedItems, stored, page, paymentStep, formData,
                            paymentError, navTimers, form>>
          ELSE SuccessEffects(a)
       ELSE ErrorEffects(a, ThrownMessage(attempts[a].resp))
    /\ UNCHANGED snapshot
    /\ UNCHANGED beVars

\* fetch rejects: the backend is not reached, or its answer is lost.
FetchRejects(a) ==
    /\ a \in DOMAIN attempts
    /\ attempts[a].pc \in {"fetch", "response"}
    /\ ErrorEffects(a, "Failed to fetch")
    /\ UNCHANGED snapshot
    /\ UNCHANGED beVars

\* sendOrderEmails: Promise.all of the confirmation and the admin
\* notification inside try/catch; success is false when one of them throws.
SendOrderEmails(netCustomer, netAdmin) ==
    [success |-> SendEmail(netCustomer) # "throws" /\ SendEmail(netAdmin) # "throws"]

\* The results sendOrderEmails can have.
EmailResults == {SendOrderEmails(nc, na) : nc \in MailNets, na \in MailNets}

\* What handlePayment does with emailResult: nothing, it goes on to
\* onPaymentSuccess ("success") whatever the result.
AfterEmailsMutFail(emailResult) == IF emailResult.success THEN "success" ELSE "error"

AfterEmails(emailResult) == "success"

\* sendOrderEmails settles with emailResult.
EmailsSettle(a, emailResult) ==
    /\ a \in DOMAIN attempts
    /\ attempts[a].pc = "emails"
    /\ IF AfterEmails(emailResult) = "success" THEN SuccessEffects(a)
       ELSE ErrorEffects(a, "Failed to send confirmation emails")
    /\ UNCHANGED snapshot
    /\ UNCHANGED beVars

\* The 5 s timer of handlePaymentSuccess fires: navigate('/').
NavTimerFires ==
    /\ navTimers > 0
    /\ navTimers' = navTimers - 1
    /\ IF page = "order" THEN UnmountOrder
       ELSE UNCHANGED <<page, paymentStep, formData, paymentError, form, attempts>>
    /\ UNCHANGED <<selectedItems, stored>>
    /\ snapshot' = NoSnapshot
    /\ UNCHANGED beVars

ProcAnswersSeen ==
    { ProcAnswer("ok", NoErrors, "pay_1"),
      ProcAnswer("rejected", <<Declined>>, ""),
      ProcAnswer("fetch-throws", NoErrors, "") }

Next ==
    \/ \E item \in MenuItems : AddToOrder(item)
    \/ \E index \in 1..MaxCart : RemoveFromOrder(index)
    \/ EnterOrder
    \/ LeaveOrder
    \/ \E fd \in FormInputs : HandleInputChange(fd)
    \/ HandleFormSubmit
    \/ BackToForm
    \/ OrderRerender
    \/ \E outcome \in {"attached", "already", "payments", "card", "attach"} :
          InitializeSquare(outcome)
    \/ HandlePayment
    \/ \E a \in 1..MaxAttempts, result \in TokenizeResults : TokenizeSettles(a, result)
    \/ \E a \in 1..MaxAttempts, answer \in ProcAnswersSeen : BackendHandles(a, answer)
    \/ \E a \in 1..MaxAttempts : FetchResolves(a)
    \/ \E a \in 1..MaxAttempts : FetchRejects(a)
    \/ \E a \in 1..MaxAttempts, emailResult \in EmailResults :
          EmailsSettle(a, emailResult)
    \/ NavTimerFires

Spec == Init /\ [][Next]_vars

\* goToOrder: navigate("/order", { state: { selectedItems } })
GoToOrder ==
    /\ page = "menu" /\ Len(selectedItems) > 0
    /\ page' = "order"
    /\ snapshot' = SnapshotOf(selectedItems)
    /\ UNCHANGED <<selectedItems, stored>>
    /\ UNCHANGED <<paymentStep, formData, paymentError, navTimers, form, attempts>>
    /\ UNCHANGED beVars

\* The browser session with both ways into /order: by a link, and by the
\* menu's Proceed to Checkout.
CheckoutNext == Next \/ GoToOrder

CheckoutSpec == Init /\ [][CheckoutNext]_vars

\* The payment form on its own, every await of initializeSquare a step: the
\* order page in the payment step, with the renders of Order, Back to Form
\* and Continue to Payment.
WidgetInit ==
    /\ selectedItems = <<"Artisan Sourdough">>
    /\ stored = <<"Artisan Sourdough">>
    /\ snapshot = NoSnapshot
    /\ page = "order"
    /\ paymentStep = "payment"
    /\ formData = ValidForm
    /\ paymentError = ""
    /\ navTimers = 0
    /\ form = MountedForm
    /\ attempts = << >>
    /\ BackendIdle

WidgetNext ==
    \/ InitTimerFires
    \/ \E ok \in BOOLEAN : InitPaymentsSettles(ok)
    \/ \E ok \in BOOLEAN : InitCardSettles(ok)
    \/ \E how \in {"attached", "already", "error"} : InitAttachSettles(how)
    \/ \E pc \in {"payments", "card", "attach"}, ok \in BOOLEAN : OrphanSettles(pc, ok)
    \/ OrderRerender
    \/ BackToForm
    \/ HandleFormSubmit
    \/ HandlePayment
    \/ \E a \in 1..MaxAttempts, result \in TokenizeResults : TokenizeSettles(a, result)
    \/ \E a \in 1..MaxAttempts : FetchRejects(a)

WidgetSpec == WidgetInit /\ [][WidgetNext]_vars

(***************************************************************************)
(* The cart on its own: the store, the menu page with its order summary,   *)
(* and the order page with its own, before the payment step.               *)
(***************************************************************************)
CartMenu == {"Artisan Sourdough", "Chocolate Chip Cookies"}

\* Nothing of the checkout is touched.
CartFrame ==
    /\ UNCHANGED <<paymentStep, formData, paymentError, navTimers, form, attempts>>
    /\ UNCHANGED beVars

\* addToOrder(item): Add to Order of the menu, + of the menu's order
\* summary, + of an entry of the order page's summary; the store accepts
\* the write or not.
StoreAddToOrder(item, accepts) ==
    /\ Len(selectedItems) < MaxCartLen
    /\ \/ page = "menu"
       \/ page = "order" /\ \E i \in DOMAIN OrderItems : OrderItems[i] = item
    /\ selectedItems' = Append(selectedItems, item)
    /\ stored' = SaveOrderToStorage(Append(selectedItems, item), accepts)
    /\ UNCHANGED <<page, snapshot>>
    /\ CartFrame

CartAddToOrder(item) == StoreAddToOrder(item, TRUE)

\* removeFromOrder(index), as any consumer of the context may call it.
StoreRemoveFromOrder(index, accepts) ==
    /\ page \in {"menu", "order"}
    /\ selectedItems' = RemoveAt(selectedItems, index)
    /\ stored' = SaveOrderToStorage(RemoveAt(selectedItems, index), accepts)
    /\ UNCHANGED <<page, snapshot>>
    /\ CartFrame

CartRemoveFromOrder(index) == StoreRemoveFromOrder(index, TRUE)

\* The - button of the entry name of the summary shown: findIndex in the
\* list shown, removeFromOrder on the context's list.
RemoveOne(name) ==
    /\ FindIndex(ShownItems, name) # 0
    /\ CartRemoveFromOrder(FindIndex(ShownItems, name))

\* The x button of the entry name of the summary shown: every index of the
\* name in the list shown, last first.
RemoveAllOf(name) ==
    /\ FindIndex(ShownItems, name) # 0
    /\ selectedItems' = RemoveEach(selectedItems, IndicesToRemove(ShownItems, name))
    /\ stored' = SaveOrderToStorage(
                    RemoveEach(selectedItems, IndicesToRemove(ShownItems, name)), TRUE)
    /\ UNCHANGED <<page, snapshot>>
    /\ CartFrame

\* clearOrder(), as handlePaymentSuccess calls it.
StoreClearOrder(accepts) ==
    /\ page = "order" /\ Len(OrderItems) > 0
    /\ selectedItems' = ClearOrder(selectedItems)
    /\ stored' = SaveOrderToStorage(ClearOrder(selectedItems), accepts)
    /\ UNCHANGED <<page, snapshot>>
    /\ CartFrame

CartClearOrder == StoreClearOrder(TRUE)

\* /order entered by a link, without state.
CartEnterOrder ==
    /\ page = "menu"
    /\ page' = "order"
    /\ snapshot' = NoSnapshot
    /\ UNCHANGED <<selectedItems, stored>>
    /\ CartFrame

\* The route changes away from /order.
CartLeaveOrder ==
    /\ page = "order"
    /\ page' = "menu"
    /\ snapshot' = NoSnapshot
    /\ UNCHANGED <<selectedItems, stored>>
    /\ CartFrame

CartNext ==
    \/ \E item \in CartMenu : CartAddToOrder(item)
    \/ \E index \in 0..(MaxCartLen + 1) : CartRemoveFromOrder(index)
    \/ \E name \in CartMenu : RemoveOne(name)
    \/ \E name \in CartMenu : RemoveAllOf(name)
    \/ CartClearOrder
    \/ GoToOrder
    \/ CartEnterOrder
    \/ CartLeaveOrder

CartSpec == Init /\ [][CartNext]_vars

(***************************************************************************)
(* The cart and its stored copy: a session that starts on whatever an      *)
(* earlier one left under the key, with a store that may refuse a write    *)
(* or a read, and the page loaded again at any time.                       *)
(***************************************************************************)
\* What the key holds when the session starts.
StartTexts == {<< >>, CorruptText, <<"Artisan Sourdough">>}

\* The page is loaded again: the provider starts from useState([]) and its
\* load effect runs; an exception leaving the effect takes the page down.
Reload(readable) ==
    /\ page \in {"menu", "order"}
    /\ selectedItems' = RestoredCart(stored, readable)
    /\ page' = IF LoadOrderFromStorage(stored, readable).thrown
               THEN "crashed" ELSE page
    /\ UNCHANGED <<stored, snapshot>>
    /\ CartFrame

StoreInit ==
    /\ \E text \in StartTexts, readable \in BOOLEAN :
          /\ stored = text
          /\ selectedItems = RestoredCart(text, readable)
          /\ page = IF LoadOrderFromStorage(text, readable).thrown
                    THEN "crashed" ELSE "menu"
    /\ snapshot = NoSnapshot
    /\ paymentStep = "form"
    /\ formData = EmptyForm
    /\ paymentError = ""
    /\ navTimers = 0
    /\ form = UnmountedForm
    /\ attempts = << >>
    /\ BackendIdle

StoreNext ==
    \/ \E item \in CartMenu, accepts \in BOOLEAN : StoreAddToOrder(item, accepts)
    \/ \E index \in 0..(MaxCartLen + 1), accepts \in BOOLEAN :
          StoreRemoveFromOrder(index, accepts)
    \/ \E accepts \in BOOLEAN : StoreClearOrder(accepts)
    \/ \E readable \in BOOLEAN : Reload(readable)
    \/ CartEnterOrder
    \/ CartLeaveOrder

StoreSpec == StoreInit /\ [][StoreNext]_vars

(***************************************************************************)
(* The charge on its own: the order page in the payment step with the      *)
(* payment form initialized, for every cart of up to MaxChargeItems items  *)
(* of the menu; Pay, and the attempt up to its end.                        *)
(***************************************************************************)
\* menuItems[..].name
AllMenuItems ==
    { "Artisan Sourdough", "Sandwich Bread", "Chocolate Chip Cookies",
      "Apple Cider Donut (2 pack)", "Pecan Banana Bread", "Cinnamon Rolls",
      "Express Brownie", "Mini Banana Bread" }

ChargeCarts == UNION {[1..n -> AllMenuItems] : n \in 1..MaxChargeItems}

\* The payment form after initializeSquare ran to its end.
InitializedForm ==
    [MountedForm EXCEPT !.paymentsRef = TRUE, !.cardRef = "card",
                        !.container = TRUE, !.isInitialized = TRUE,
                        !.initPc = "done"]

ChargeInit ==
    /\ selectedItems \in ChargeCarts
    /\ stored = selectedItems
    /\ snapshot = NoSnapshot
    /\ page = "order"
    /\ paymentStep = "payment"
    /\ formData = ValidForm
    /\ paymentError = ""
    /\ navTimers = 0
    /\ form = InitializedForm
    /\ attempts = << >>
    /\ BackendIdle

ChargeNext ==
    \/ HandlePayment
    \/ \E outcome \in {"attached", "attach"} : InitializeSquare(outcome)
    \/ \E a \in 1..MaxAttempts, result \in TokenizeResults : TokenizeSettles(a, result)
    \/ \E a \in 1..MaxAttempts, answer \in ProcAnswersSeen : BackendHandles(a, answer)
    \/ \E a \in 1..MaxAttempts : FetchResolves(a)
    \/ \E a \in 1..MaxAttempts : FetchRejects(a)
    \/ \E a \in 1..MaxAttempts, emailResult \in EmailResults :
          EmailsSettle(a, emailResult)
    \/ NavTimerFires

ChargeSpec == ChargeInit /\ [][ChargeNext]_vars

\* The two backends on their own: a request to process-payment, or a
\* sendEmail call to send-email.
BackendInit ==
    /\ FrontendInit
    /\ \/ /\ bPhase = "received"
          /\ bReq \in Requests
          /\ bEnv \in Envs
          /\ bFwd = NoPaymentRequest
          /\ bAnswer = NoAnswer
          /\ bResp = NoResponse
          /\ mail = MailIdle
       \/ /\ HandlerIdle
          /\ mail \in { MailCall("called", build, transport, req, env) :
                            build \in Builds, transport \in Transports,
                            req \in MailRequests, env \in MailEnvs }

BackendNext ==
    \/ HandlerValidates
    \/ HandlerClassifies
    \/ MailHandlerRuns
    \/ SendEmailSettles

BackendSpec == BackendInit /\ [][BackendNext]_vars

(***************************************************************************)
(* Properties                                                              *)
(***************************************************************************)
\* The step is one in which handlePaymentSuccess runs: it alone sets a
\* 5 s timer.
SuccessHandlerRuns == navTimers' = navTimers + 1

\* handlePayment call a returns in the step.
Returns(a) == a \in DOMAIN attempts /\ InFlight(attempts[a]) /\ ~InFlight(attempts'[a])

\* C1: the success handler (and with it the SUCCESS step and the cart clear
\* of a checkout) runs only in a step in which a handlePayment call returns
\* that holds a 2xx response with body status COMPLETED from the backend;
\* and whenever a call holds a COMPLETED response of the backend, the
\* backend had forwarded a request and the processor had answered it ok.
C1_CompletedOnlyFromProcessor ==
    /\ [](\A a \in DOMAIN attempts :
            attempts[a].resp.status = "COMPLETED" =>
                /\ attempts[a].fwd # NoPaymentRequest
                /\ attempts[a].answer = "ok")
    /\ [][ /\ SuccessHandlerRuns =>
                \E a \in DOMAIN attempts :
                    /\ Returns(a)
                    /\ attempts[a].resp.statusCode \in 200..299
                    /\ attempts[a].resp.status = "COMPLETED"
           /\ (paymentStep' = "success" /\ paymentStep # "success") => SuccessHandlerRuns
         ]_vars

\* C1 witness: the success handler has run: SUCCESS is shown and its timer
\* is pending.
C1_Witness == page = "order" /\ paymentStep = "success" /\ navTimers > 0

\* The attempts of the mounted form that are in flight.
LiveInFlight == {a \in DOMAIN attempts : attempts[a].live /\ InFlight(attempts[a])}

\* The order of the steps of one handlePayment call.
PcRank(pc) ==
    IF pc = "tokenize" THEN 1 ELSE IF pc = "fetch" THEN 2
    ELSE IF pc = "response" THEN 3 ELSE IF pc = "emails" THEN 4 ELSE 5

\* C2: the mounted payment form has at most one attempt in flight, whatever
\* Pay invocations arrive meanwhile: an invocation made while one is in
\* flight starts no handlePayment call (hence no tokenize), and a call in
\* flight keeps the one key it generated and moves forward only, so it
\* tokenizes once and submits once.
C2_OneAttemptInFlight ==
    /\ [](Cardinality(LiveInFlight) <= 1)
    /\ [][ /\ (LiveInFlight # {} /\ Len(attempts') > Len(attempts)) => FALSE
           /\ \A a \in DOMAIN attempts :
                InFlight(attempts[a]) =>
                    /\ PcRank(attempts'[a].pc) >= PcRank(attempts[a].pc)
                    /\ (attempts[a].key # "" /\ InFlight(attempts'[a])) =>
                            attempts'[a].key = attempts[a].key
         ]_vars

\* C2 witness: a Pay invocation was ignored while the attempt of the mounted
\* form was in flight, and that attempt has generated its key and submitted.
C2_Witness ==
    \E a \in DOMAIN attempts :
        attempts[a].live /\ attempts[a].overlapped /\ attempts[a].pc = "fetch"
        /\ attempts[a].key # ""

\* The idempotencyKey field of the request the backend was given.
CallerKey == BodyField(bReq, "idempotencyKey")

\* C3 (as amended): a request that is forwarded and carries a non-empty
\* idempotencyKey is forwarded with exactly that key; the backend puts a key
\* of its own only when the caller's key is missing or empty.
C3_KeyForwardedUnaltered ==
    bFwd # NoPaymentRequest =>
        IF CallerKey.t = "string" /\ CallerKey.s # ""
        THEN bFwd.idempotency_key = CallerKey
        ELSE /\ CallerKey \in {Undefined, Str("")}
             /\ bFwd.idempotency_key \in {Str(u) : u \in ServerUuids}

\* C3 witness: a request with the key "key-A" was forwarded with "key-A".
C3_Witness ==
    /\ bPhase = "forwarded"
    /\ CallerKey = Str("key-A")
    /\ bFwd.idempotency_key = Str("key-A")

\* C3 as stated: every forwarded request that carries an idempotencyKey is
\* forwarded with that key, and the backend generates one only when the
\* request has no idempotencyKey field.
C3_AsStated ==
    bFwd # NoPaymentRequest =>
        /\ CallerKey # Undefined => bFwd.idempotency_key = CallerKey
        /\ bFwd.idempotency_key # CallerKey => CallerKey = Undefined

\* The amount and amountCents fields of the request the backend was given.
CallerAmount == BodyField(bReq, "amount")
CallerAmountCents == BodyField(bReq, "amountCents")

\* fa is what the normalization rule gives for a numeric amountCents, or for
\* a numeric amount without amountCents.
NormalizedAsRuled(amount, amountCents, fa) ==
    IF amountCents.t = "number" THEN fa = amountCents
    ELSE IF amountCents.t \in {"undefined", "null"} /\ amount.t = "number" THEN
        IF amount.v % 1000 # 0
        THEN /\ fa.t = "number" /\ fa.v % 1000 = 0
             /\ fa.v - amount.v * 100 \in (0 - 500)..500
        ELSE IF amount.v > 1000 * 1000 THEN fa = amount
        ELSE fa = Num(amount.v * 100)
    ELSE TRUE

\* C4: the backend's normalized amount is amountCents itself when the
\* request has a numeric amountCents, whatever its amount; otherwise a
\* non-integer amount times 100 rounded to the nearest integer, an integer
\* amount above 1000 itself, and an integer amount of 1000 or less times
\* 100; the amount forwarded to the processor is that value. The four
\* examples of the rule: 500, 12.34, 50000 and 5.
C4_AmountNormalized ==
    /\ \A fa \in FinalAmount(CallerAmount, CallerAmountCents) :
          NormalizedAsRuled(CallerAmount, CallerAmountCents, fa)
    /\ bFwd # NoPaymentRequest =>
          NormalizedAsRuled(CallerAmount, CallerAmountCents, bFwd.amount)
    /\ FinalAmount(Whole(50000), Whole(500)) = {Whole(500)}
    /\ FinalAmount(Num(12340), Undefined) = {Whole(1234)}
    /\ FinalAmount(Whole(50000), Undefined) = {Whole(50000)}
    /\ FinalAmount(Whole(5), Undefined) = {Whole(500)}

\* C4 witness: a request with amount 50000 and amountCents 500 was forwarded
\* with the amount 500.
C4_Witness ==
    /\ bPhase = "forwarded"
    /\ CallerAmount = Whole(50000) /\ CallerAmountCents = Whole(500)
    /\ bFwd.amount = Whole(500)

\* fa is a finite number inside [min, max] of the environment env.
InBounds(fa, env) ==
    /\ fa.t = "number"
    /\ fa.v >= MinAmountCents(env).v
    /\ fa.v <= MaxAmountCents(env).v

\* The request passes the checks the handler makes before the bounds: a
\* POST with a JSON body, a non-empty string sourceId, an allowed currency.
ReachesBoundsCheck ==
    /\ bReq.httpMethod = "POST" /\ bReq.bodyKind # "invalid"
    /\ BodyField(bReq, "sourceId").t = "string"
    /\ Trim(BodyField(bReq, "sourceId").s) # ""
    /\ \/ BodyField(bReq, "currency") \in {Undefined, Null, Str("")}
          /\ "USD" \in AllowedCurrencies(bEnv)
       \/ /\ BodyField(bReq, "currency").t = "string"
          /\ ToUpperCase(BodyField(bReq, "currency").s) \in AllowedCurrencies(bEnv)

\* C5: every amount forwarded to the processor is a finite number inside
\* [min, max]; a request whose normalized amount is not is never forwarded,
\* and when it reaches the bounds check it is answered 400 FAILED with the
\* bounds error, as are, under the default configuration, the amounts 30
\* and 1000001 in minor units.
C5_AmountBounds ==
    /\ bFwd # NoPaymentRequest => InBounds(bFwd.amount, bEnv)
    /\ (/\ bPhase = "responded"
        /\ ReachesBoundsCheck
        /\ \A fa \in FinalAmount(CallerAmount, CallerAmountCents) : ~InBounds(fa, bEnv))
       => /\ bFwd = NoPaymentRequest
          /\ bResp.statusCode = 400 /\ bResp.status = "FAILED"
          /\ bResp.error = "Invalid payment amount (out of bounds)"
    /\ (/\ bPhase = "responded" /\ bEnv = DefaultEnv /\ ReachesBoundsCheck
        /\ CallerAmountCents \in {Whole(30), Whole(1000001)})
       => bResp.error = "Invalid payment amount (out of bounds)"

\* C5 witness: under the default configuration a request of 30 minor units
\* was answered with the bounds error and nothing was forwarded.
C5_Witness ==
    /\ bPhase = "responded" /\ bEnv = DefaultEnv
    /\ CallerAmountCents = Whole(30)
    /\ bResp.statusCode = 400
    /\ bResp.error = "Invalid payment amount (out of bounds)"
    /\ bFwd = NoPaymentRequest

\* C6 as stated: when the processor rejects the forwarded request, the
\* backend's response is 400 FAILED with the error built from the
\* processor's error list, and the call that receives it leaves in
\* paymentError the message of that response, with the step and the cart as
\* they were.
C6_ProcessorMessageSurfaced ==
    [][\A a \in 1..MaxAttempts :
          (FetchResolves(a) /\ attempts[a].answer = "rejected") =>
              /\ attempts[a].resp.statusCode = 400
              /\ attempts[a].resp.status = "FAILED"
              /\ attempts[a].resp.error = "Card declined."
              /\ attempts[a].orderLive => paymentError' = attempts[a].resp.error
              /\ paymentStep' = paymentStep
              /\ selectedItems' = selectedItems
      ]_vars

\* The codes of the tokenize errors that are shown.
SeriousCodesClaimed == {"NETWORK_ERROR", "SERVER_ERROR", "TOKENIZATION_ERROR"}

\* result is a non-OK tokenize result with exactly one serious error.
OneSeriousError(result) ==
    /\ result.status \notin {"OK", "throws"}
    /\ Cardinality({i \in DOMAIN result.errors :
                        result.errors[i].code \in SeriousCodesClaimed}) = 1

\* C7: when tokenize of a call of the mounted form returns a non-OK result
\* with a serious error, the call ends there: the step and the cart (and
\* its stored copy) are as before, the form shows exactly one message and
\* the order page's error banner is not touched, and the call has generated
\* no key and sent nothing to the backend.
C7_SeriousTokenizeErrorAborts ==
    [][\A a \in 1..MaxAttempts : \A result \in TokenizeResults :
          (OneSeriousError(result) /\ TokenizeSettles(a, result) /\ attempts[a].live) =>
              /\ paymentStep' = paymentStep /\ paymentStep = "payment"
              /\ selectedItems' = selectedItems /\ stored' = stored
              /\ Len(form'.paymentErrors) = 1
              /\ paymentError' = paymentError
              /\ ~InFlight(attempts'[a])
              /\ attempts[a].key = "" /\ attempts[a].fwd = NoPaymentRequest
              /\ ~form'.validationRunning
      ]_vars

\* C7 witness: the payment form shows the one message of a serious tokenize
\* error, in the PAYMENT step, with no attempt in flight.
C7_Witness ==
    /\ form.mounted /\ paymentStep = "payment"
    /\ Len(form.paymentErrors) = 1
    /\ \A a \in DOMAIN attempts : ~InFlight(attempts[a])
    /\ Len(attempts) > 0

C9_EmailFailureIsNotPaymentFailure ==
    [][\A a \in 1..MaxAttempts : \A emailResult \in EmailResults :
          EmailsSettle(a, emailResult) =>
              /\ SuccessHandlerRuns
              /\ selectedItems' = << >> /\ stored' = << >>
              /\ IF attempts[a].orderLive
                 THEN paymentStep' = "success" /\ paymentError' = ""
                 ELSE paymentStep' = paymentStep /\ paymentError' = paymentError
      ]_vars

\* C9 witness: an attempt that holds COMPLETED awaits its emails, and the
\* run can fail them: the results sendOrderEmails can have include the
\* failure.
C9_Witness ==
    /\ \E a \in DOMAIN attempts :
          attempts[a].pc = "emails" /\ attempts[a].orderLive
          /\ attempts[a].customerEmail # ""
    /\ [success |-> FALSE] \in EmailResults

\* C10 as stated: a call that receives the backend's COMPLETED response
\* takes its Order to SUCCESS in that step, without waiting for the emails.
C10_SuccessNotGatedByEmails ==
    [][\A a \in 1..MaxAttempts :
          (/\ FetchResolves(a)
           /\ attempts[a].resp.statusCode \in 200..299
           /\ attempts[a].resp.status = "COMPLETED"
           /\ attempts[a].orderLive)
          => paymentStep' = "success"
      ]_vars

\* handlePayment call a returns in the step without the success handler: the
\* attempt has failed.
Fails(a) == Returns(a) /\ ~SuccessHandlerRuns

\* C11: in the step in which an attempt fails (tokenize rejects or is not
\* OK, the backend's response is not a 2xx COMPLETED, or fetch rejects) the
\* step, the cart, its stored copy and the delivery form are as before, for
\* an attempt of the mounted form the step is PAYMENT and the guard is
\* released, and the failure starts no call; a call starts only in a Pay
\* invocation, and the key a call generates differs from the key of every
\* other call, the failed ones included.
C11_FailedAttemptRetriesAnew ==
    /\ [](\A a \in DOMAIN attempts : \A b \in DOMAIN attempts :
            (a # b /\ attempts[a].key # "") => attempts[a].key # attempts[b].key)
    /\ [][ /\ \A a \in 1..MaxAttempts :
                Fails(a) =>
                    /\ paymentStep' = paymentStep
                    /\ selectedItems' = selectedItems /\ stored' = stored
                    /\ formData' = formData
                    /\ attempts[a].live =>
                          /\ paymentStep = "payment"
                          /\ form'.mounted /\ form'.isInitialized
                          /\ ~PaymentGuard(form')
                    /\ Len(attempts') = Len(attempts)
                    /\ \A b \in DOMAIN attempts : b # a => attempts'[b] = attempts[b]
           /\ Len(attempts') > Len(attempts) => HandlePayment
         ]_vars

\* C11 witness: the first attempt failed with the backend's answer (its
\* message is in the banner, its key was key-1) and, the cart and the form
\* kept, a second Pay has submitted a request with another key.
C11_Witness ==
    /\ Len(attempts) = 2
    /\ ~InFlight(attempts[1]) /\ attempts[1].key = "key-1"
    /\ attempts[2].pc = "fetch" /\ attempts[2].live /\ attempts[2].key = "key-2"
    /\ paymentStep = "payment" /\ paymentError = "Payment processing failed"
    /\ formData = ValidForm /\ Len(selectedItems) > 0

\* The sourceId field of the request the backend was given.
CallerSourceId == BodyField(bReq, "sourceId")

\* The sourceId is missing, empty, whitespace-only or not a string.
BadSourceId ==
    \/ CallerSourceId.t # "string"
    \/ CallerSourceId.s \in {"", " ", "  "}

\* The response is code with status FAILED and nothing was forwarded.
RejectedWith(code) ==
    /\ bResp.statusCode = code /\ bResp.status = "FAILED"
    /\ bFwd = NoPaymentRequest /\ bAnswer = NoAnswer

\* C12: a request whose method is neither POST nor OPTIONS is answered 405
\* FAILED; a POST whose body does not parse is answered 400 FAILED; a POST
\* whose sourceId is missing, empty, whitespace-only or not a string is
\* answered 400 FAILED; and none of these requests is ever forwarded to the
\* processor.
C12_MalformedRequestsRejected ==
    LET badMethod == bReq.httpMethod \notin {"POST", "OPTIONS"}
        badBody == bReq.httpMethod = "POST" /\ bReq.bodyKind = "invalid"
        badSource == bReq.httpMethod = "POST" /\ bReq.bodyKind # "invalid"
                     /\ BadSourceId
    IN  /\ (badMethod \/ badBody \/ badSource) =>
              bPhase # "forwarded" /\ bFwd = NoPaymentRequest
        /\ bPhase = "responded" =>
              /\ badMethod => RejectedWith(405)
              /\ badBody => RejectedWith(400)
              /\ badSource => RejectedWith(400)

\* C12 witness: a POST with a whitespace-only sourceId was answered 400
\* 'Invalid sourceId' and nothing was forwarded.
C12_Witness ==
    /\ bPhase = "responded" /\ bReq.httpMethod = "POST"
    /\ CallerSourceId = Str("  ")
    /\ RejectedWith(400) /\ bResp.error = "Invalid sourceId"

\* The request passes the checks the handler makes before the currency: a
\* POST whose body parses, with a non-empty string sourceId.
ReachesCurrencyCheck ==
    /\ bReq.httpMethod = "POST" /\ bReq.bodyKind # "invalid"
    /\ ~BadSourceId

\* The currency of the request, 'USD' when the request has no currency
\* field, is a string of the allow-list, compared case-insensitively.
CurrencyAllowed ==
    /\ BodyCurrency(bReq).t = "string"
    /\ ToUpperCase(BodyCurrency(bReq).s) \in AllowedCurrencies(bEnv)

\* C13 as stated: a request that reaches the currency check with a currency
\* that is not in the allow-list is answered 400 FAILED 'Unsupported
\* currency' and is never forwarded, whatever its amount.
C13_UnsupportedCurrencyRejected ==
    (ReachesCurrencyCheck /\ ~CurrencyAllowed) =>
        /\ bPhase # "forwarded" /\ bFwd = NoPaymentRequest
        /\ bPhase = "responded" =>
              /\ RejectedWith(400)
              /\ bResp.error = "Unsupported currency"

\* Debug mode of the payment handler is off.
DebugOff == bEnv.DEBUG_PROCESS_PAYMENT # "true"

PassesValidation ==
    /\ ReachesBoundsCheck
    /\ \A fa \in FinalAmount(CallerAmount, CallerAmountCents) : InBounds(fa, bEnv)

\* C15: a payment request that passes validation while the access token or
\* the location id is unset is answered 500 FAILED 'Server configuration
\* error', and no request is forwarded under such an environment; a POST to
\* the email handler while the API key is unset is answered 500 FAILED
\* 'Email service not configured' and nothing is given to the provider;
\* and every run of either handler ends in a response.
C15_AbsentConfigurationIsReported ==
    LET unset == bEnv.SQUARE_ACCESS_TOKEN = "" \/ bEnv.SQUARE_LOCATION_ID = ""
        handled == mail.phase \in {"responded", "settled"} /\ mail.transport = "ok"
    IN  /\ unset => bPhase # "forwarded" /\ bFwd = NoPaymentRequest
        /\ (bPhase = "responded" /\ PassesValidation /\ unset) =>
              /\ RejectedWith(500)
              /\ bResp.error = "Server configuration error"
        /\ bPhase = "responded" => bResp.statusCode \in {200, 400, 405, 500}
        /\ (handled /\ mail.req.httpMethod = "POST"
            /\ mail.env.SENDGRID_API_KEY = "") =>
              /\ mail.resp.statusCode = 500 /\ mail.resp.status = "FAILED"
              /\ mail.resp.error = "Email service not configured"
              /\ mail.resp.msg = NoMsg
        /\ handled => mail.resp.statusCode \in {200, 400, 405, 500}

\* C15 witness: a valid payment request under an environment with the
\* location id unset was answered with the configuration error.
C15_Witness ==
    /\ bPhase = "responded" /\ PassesValidation
    /\ bEnv.SQUARE_ACCESS_TOKEN # "" /\ bEnv.SQUARE_LOCATION_ID = ""
    /\ RejectedWith(500) /\ bResp.error = "Server configuration error"

\* The Access-Control-Allow-Origin value v reflects the allow-list list for
\* a request from origin ("" for none): any value that lets the origin in
\* when the list is unset, and when it is set, for an origin outside it,
\* neither '*' nor the origin.
ReflectsAllowList(v, list, origin) ==
    IF list = {} THEN v = "*" \/ (origin # "" /\ v = origin)
    ELSE IF origin \in list THEN v \in {origin, "*"}
    ELSE v # "*" /\ v # origin

\* C16 as stated: every response of the payment handler has an
\* Access-Control-Allow-Origin that reflects the configured allow-list.
C16_CorsReflectsAllowList ==
    bPhase = "responded" =>
        ReflectsAllowList(bResp.allowOrigin, bEnv.ALLOWED_ORIGINS, bReq.origin)

RECURSIVE SumEntries(_)
\* The sum of price times quantity over grouped entries.
SumEntries(entries) ==
    IF Len(entries) = 0 THEN 0
    ELSE Price(Head(entries).name) * Head(entries).quantity
         + SumEntries(Tail(entries))

\* C17 as stated: the store's total is the sum of price times quantity over
\* the entries of the cart, and the total the order page shows and charges
\* is that sum as well.
C17_TotalIsSumOverCart ==
    /\ totalPrice = SumEntries(UniqueItems(selectedItems))
    /\ page = "order" => getTotalPrice = SumEntries(UniqueItems(selectedItems))

\* The number of entries of the flat list items with the name name.
CountOf(items, name) == Cardinality({i \in DOMAIN items : items[i] = name})

\* The grouped entries the page shown presents.
Presented == UniqueItems(ShownItems)

\* C18 as stated: the summary shown presents the cart grouped: one entry
\* for each name in the cart and no other, each with the number of entries
\* of that name in the cart (its adds minus its removals) as its quantity,
\* which is never 0; a name added twice is one entry of quantity 2.
C18_OneGroupedEntryPerName ==
    /\ \A i \in DOMAIN Presented : \A j \in DOMAIN Presented :
          Presented[i].name = Presented[j].name => i = j
    /\ {Presented[i].name : i \in DOMAIN Presented}
          = {selectedItems[i] : i \in DOMAIN selectedItems}
    /\ \A i \in DOMAIN Presented :
          /\ Presented[i].quantity >= 1
          /\ Presented[i].quantity = CountOf(selectedItems, Presented[i].name)

\* C19: removeFromOrder(index) with an index inside the flat list removes
\* the entry at that position and keeps every other entry in its order;
\* with any other index (0 stands for a negative one), or on an empty cart,
\* it leaves the cart as it is; and the call is possible in every state
\* with every index: nothing is raised.
C19_RemoveExactlyOneOrNothing ==
    /\ [](\A index \in 0..(MaxCartLen + 1) : ENABLED CartRemoveFromOrder(index))
    /\ [][\A index \in 0..(MaxCartLen + 1) :
            CartRemoveFromOrder(index) =>
                IF index \in 1..Len(selectedItems)
                THEN /\ Len(selectedItems') = Len(selectedItems) - 1
                     /\ \A i \in 1..(index - 1) :
                            selectedItems'[i] = selectedItems[i]
                     /\ \A i \in index..(Len(selectedItems) - 1) :
                            selectedItems'[i] = selectedItems[i + 1]
                ELSE selectedItems' = selectedItems
         ]_vars

\* C19 witness: the cart was Sourdough, Cookies, Sourdough when the order
\* page was entered, and the entry at the first position has been removed
\* since: the other two are left, in their order.
C19_Witness ==
    /\ snapshot = SnapshotOf(<<"Artisan Sourdough", "Chocolate Chip Cookies",
                               "Artisan Sourdough">>)
    /\ selectedItems = <<"Chocolate Chip Cookies", "Artisan Sourdough">>

\* C20 as stated: in a production build sendEmail never settles with
\* LOCAL_DEV_SKIP: when the endpoint is not found, fetch fails or the email
\* service is not configured, the call throws.
C20_NoLocalDevSkipInProduction ==
    (mail.phase = "settled" /\ mail.build = "production") =>
        /\ mail.result # "LOCAL_DEV_SKIP"
        /\ (\/ mail.transport # "ok"
            \/ mail.resp.error = "Email service not configured")
           => mail.result = "throws"

\* C21: for every cart, the amount the backend forwards to the processor is
\* the total on the Pay button in cents (the dollars times 100): the
\* client's Math.round(amount * 100) followed by the backend's
\* normalization leaves the charge as it is.
C21_ForwardedAmountIsDisplayedTotal ==
    \A a \in DOMAIN attempts :
        attempts[a].fwd # NoPaymentRequest =>
            attempts[a].fwd.amount = Whole(attempts[a].amount * 100)

\* The attempt a returns in this step, and its payment form was unmounted
\* before.
LateReturn(a) ==
    /\ a \in DOMAIN attempts
    /\ InFlight(attempts[a]) /\ ~attempts[a].live
    /\ ~InFlight(attempts'[a])

\* C22: once the payment form is unmounted (Back to Form, or the route
\* changed), the return of its pending attempt changes no UI state: not the
\* step, not the cart, not the error banner, and it sets no navigation timer.
C22_LateResponseMutatesNothing ==
    [][\A a \in 1..MaxAttempts :
          LateReturn(a) =>
              UNCHANGED <<paymentStep, selectedItems, paymentError, navTimers>>]_vars

\* C23: in one browser session at most one attempt is in flight at any
\* time, whichever payment form started it: no tokenize call and no
\* submission to the backend is started while an earlier one is pending.
C23_OneAttemptInFlightPerSession ==
    Cardinality({a \in DOMAIN attempts : InFlight(attempts[a])}) <= 1

\* The widget adapter is READY: initializeSquare of the effect that is
\* current has run to its end.
Ready(f) == f.mounted /\ f.initPc = "done"

\* The step calls tokenize(): a handlePayment call passes its checks.
TokenizeCalled == Len(attempts') > Len(attempts)

\* C24: tokenize() is called only while the adapter is READY. While the form
\* is mounted and its adapter is not (initializing, initializing again after
\* a cleanup, or failed) the Pay button is disabled, and no Pay invocation
\* reaches tokenize().
C24_TokenizeOnlyWhenReady ==
    /\ []((form.mounted /\ ~Ready(form)) => PayDisabled)
    /\ [][TokenizeCalled => Ready(form)]_vars

\* C25: after the payment form is unmounted nothing of the widget is left,
\* whatever was pending of its initialization: the card and payments
\* references are empty, the mount point is clear, and the form is not
\* marked initialized.
C25_TeardownReleasesEverything ==
    ~form.mounted =>
        /\ form.cardRef = "null"
        /\ ~form.paymentsRef
        /\ ~form.container
        /\ ~form.isInitialized

\* C26: within one Order the step changes only from 'form' to 'payment' on
\* a submit of a delivery form without errors, from 'payment' back to
\* 'form', and from 'payment' to 'success' when a call holding a COMPLETED
\* response returns; so a submit with a failing field stays where it is,
\* 'success' is not entered from 'form' and is not left.
C26_StepTransitions ==
    [][(page = "order" /\ page' = "order" /\ paymentStep' # paymentStep) =>
          \/ /\ paymentStep = "form" /\ paymentStep' = "payment"
             /\ ValidateForm(formData) = {}
          \/ paymentStep = "payment" /\ paymentStep' = "form"
          \/ /\ paymentStep = "payment" /\ paymentStep' = "success"
             /\ \E a \in DOMAIN attempts :
                   Returns(a) /\ PaymentCompleted(attempts[a].resp)]_vars

\* C27: on the order page, however it was entered, the list presented is
\* the cart, and the amount of an attempt (the amount prop that handlePayment
\* turns into the amount it sends) is the total of the cart as it stands when
\* Pay is invoked.
C27_AmountIsOfCurrentCart ==
    /\ [](page = "order" => OrderItems = selectedItems)
    /\ [][TokenizeCalled =>
            attempts'[Len(attempts')].amount = SumPrices(selectedItems)]_vars

\* Order returns the empty-cart view: its list is empty.
EmptyCartView == page = "order" /\ Len(OrderItems) = 0

\* Order returns the confirmation view.
SuccessView == page = "order" /\ Len(OrderItems) > 0 /\ paymentStep = "success"

\* C28: whenever the cart is empty the order page shows the empty-cart view,
\* whatever the step: neither the delivery form nor the payment form is
\* shown, and no Pay invocation reaches tokenize() for an empty cart.
C28_EmptyCartShowsEmptyView ==
    /\ []((page = "order" /\ selectedItems = << >>) => EmptyCartView)
    /\ [][TokenizeCalled => selectedItems # << >>]_vars

\* C29: whenever the step is 'success' the confirmation view is what the
\* order page shows, and the 5 s navigation timer is set in the steps that
\* enter 'success' and in no other.
C29_SuccessShowsConfirmation ==
    /\ []((page = "order" /\ paymentStep = "success") => SuccessView)
    /\ [][(navTimers' > navTimers) <=>
            (paymentStep # "success" /\ paymentStep' = "success")]_vars

\* A cart operation runs in the step, the store accepting the write or not.
Mutation(accepts) ==
    \/ \E item \in CartMenu : StoreAddToOrder(item, accepts)
    \/ \E index \in 0..(MaxCartLen + 1) : StoreRemoveFromOrder(index, accepts)
    \/ StoreClearOrder(accepts)

\* C30: after an add, a remove or a clear that the store accepts the stored
\* copy is the cart; loading the page again with the stored copy equal to
\* the cart and the store readable gives that cart back; a write the store
\* refuses leaves the stored copy as it was while the cart changes as the
\* operation says; and no failure of a write or of a read (the store not
\* readable, a text that cannot be parsed) takes the page down.
C30_StoredCopyMirrorsCart ==
    /\ [](page # "crashed")
    /\ [][Mutation(TRUE) => stored' = selectedItems']_vars
    /\ [][(Reload(TRUE) /\ stored = selectedItems) =>
            selectedItems' = selectedItems]_vars
    /\ [][\A item \in CartMenu :
            StoreAddToOrder(item, FALSE) =>
                /\ selectedItems' = Append(selectedItems, item)
                /\ stored' = stored]_vars
    /\ [][\A index \in 0..(MaxCartLen + 1) :
            StoreRemoveFromOrder(index, FALSE) =>
                /\ selectedItems' = RemoveAt(selectedItems, index)
                /\ stored' = stored]_vars
    /\ [][StoreClearOrder(FALSE) =>
            (selectedItems' = << >> /\ stored' = stored)]_vars
    /\ [][(\E readable \in BOOLEAN : Reload(readable)) =>
            selectedItems' \in {<< >>, stored}]_vars

\* A write was refused after one that was accepted: the cart is ahead of its
\* stored copy.
C30_Witness ==
    /\ Len(stored) > 0 /\ stored # CorruptText
    /\ Len(selectedItems) > Len(stored)

====
